---- MODULE Spec2Model ----
(***************************************************************************)
(* Model of the schema mutation engine, of the destroy generators, of the *)
(* field parser, of the drizzle columns and imports and of the model names *)
(* of brizzle.                                                             *)
(*                                                                         *)
(* A schema file is a string.  It is modelled as a sequence of lexical     *)
(* units (tokens): each token stands for the characters written next to    *)
(* it below, "\n" is the newline character, " " one whitespace character.  *)
(* The regular expressions of the source are evaluated on that sequence,   *)
(* the brace scan counts the "{" and "}" tokens, and split/join/replace    *)
(* work on the "\n" tokens.                                                *)
(***************************************************************************)
EXTENDS Integers, Sequences, FiniteSets, TLC

\* ------------------------------------------------------------------ bounds
\* Largest number of pieces (lines, or the pair of blank lines) a schema
\* content of the schema-engine checks is put together from.
MaxChunks == 4

\* Largest number of body lines of a synthesized block.
MaxBody == 1

\* ------------------------------------------------------------- vocabulary
NL == "\n"
SP == " "

\* \s of the regular expressions
WhiteSpace == {SP, NL}

\* (?:sqliteTable|pgTable|mysqlTable)
TableFns == {"sqliteTable", "pgTable", "mysqlTable"}

\* tokens that are made of \w characters only
WordTokens == {"export", "const", "id"} \cup TableFns

\* Names (model names, table names, directory names) are sequences of
\* characters.
PostsTable == << "p", "o", "s", "t", "s" >>
UsersTable == << "u", "s", "e", "r", "s" >>

\* the SQL table names the checks ask about
TableNames == {PostsTable, UsersTable}

\* ["']<tableName>["'] : the token that the quoted table name is in the
\* file; the vocabulary has the tables posts and users only
Quoted(t) ==
    IF t = PostsTable THEN "'posts'"
    ELSE IF t = UsersTable THEN "'users'"
    ELSE "'?'"

\* export const <id> = sqliteTable("<tableName>", { x({ x }),
\* the first line of a block, with the first column after the brace
Header(t) ==
    << "export", SP, "const", SP, "id", SP, "=", SP, "sqliteTable", "(",
       Quoted(t), ",", SP, "{", "x", "(", "{", "x", "}", ")", "," >>

\* The pieces a schema content is made of.
BlankLine == << >>
TwoBlankLines == << NL >>
TextLine == << "x", "(", "{", "x", "}", ")", "," >>
HeaderPosts == Header(PostsTable)
CloseLine == << "}", ")", ";" >>
OneLineUsers ==
    << "export", SP, SP, "const", SP, "id", "=", "pgTable", SP, "(", SP,
       "'users'", ",", "{", "}", ")", ";" >>
BarePosts ==
    << "const", SP, "id", SP, "=", SP, "mysqlTable", "(", "'posts'", ",",
       SP, "{", "}", ")", ";" >>
DoubleClose == << "}", "}", ")", ";" >>

Chunks ==
    { BlankLine, TwoBlankLines, HeaderPosts, CloseLine, OneLineUsers,
      BarePosts, DoubleClose }

\* ------------------------------------------------------- string helpers
\* the token at position i, or "EOF" past the end
At(s, i) == IF i \in 1..Len(s) THEN s[i] ELSE "EOF"

\* the least element of a set of numbers that is not empty
Least(P) == CHOOSE i \in P : \A k \in P : i <= k

\* first position at or after i whose token is not in the set S
SkipWhile(s, i, S) ==
    LET stops == { j \in i..Len(s) : s[j] \notin S }
    IN  IF stops # {} THEN Least(stops)
        ELSE IF i > Len(s) THEN i ELSE Len(s) + 1

\* first position at or after i whose token is in the set S, past the end
\* if there is none
Find(s, i, S) ==
    LET hits == { j \in i..Len(s) : s[j] \in S }
    IN  IF hits # {} THEN Least(hits)
        ELSE IF i > Len(s) THEN i ELSE Len(s) + 1

\* content.split("\n"): the lines of s from position i on
RECURSIVE SplitFrom(_, _)
SplitFrom(s, i) ==
    LET j == Find(s, i, {NL})
    IN  IF j > Len(s) THEN << SubSeq(s, i, Len(s)) >>
        ELSE << SubSeq(s, i, j - 1) >> \o SplitFrom(s, j + 1)

Split(s) == SplitFrom(s, 1)

\* lines.join("\n")
RECURSIVE Join(_)
Join(ls) ==
    IF Len(ls) = 0 THEN << >>
    ELSE IF Len(ls) = 1 THEN ls[1]
    ELSE ls[1] \o << NL >> \o Join(Tail(ls))

\* Splice with the count endIdx - startIdx: the last line of the range stays.
SpliceOneShort(ls, startIdx, endIdx) ==
    SubSeq(ls, 1, startIdx - 1) \o SubSeq(ls, endIdx, Len(ls))

\* lines.splice(startIdx, endIdx - startIdx + 1), 1-based inclusive range
Splice(ls, startIdx, endIdx) ==
    SubSeq(ls, 1, startIdx - 1) \o SubSeq(ls, endIdx + 1, Len(ls))

\* .replace(/\n{3,}/g, "\n\n") : each maximal run of three or more newlines
\* becomes two newlines
RECURSIVE CollapseFrom(_, _)
CollapseFrom(s, i) ==
    IF i > Len(s) THEN << >>
    ELSE LET j == Find(s, i, {NL})
             k == SkipWhile(s, j, {NL})
         IN  SubSeq(s, i, j - 1)
             \o (IF k - j >= 3 THEN << NL, NL >> ELSE SubSeq(s, j, k - 1))
             \o CollapseFrom(s, k)

\* CollapseNewlines with /\n{4,}/: a run of exactly three newlines stays.
RECURSIVE CollapseFromFour(_, _)
CollapseFromFour(s, i) ==
    IF i > Len(s) THEN << >>
    ELSE LET j == Find(s, i, {NL})
             k == SkipWhile(s, j, {NL})
         IN  SubSeq(s, i, j - 1)
             \o (IF k - j >= 4 THEN << NL, NL >> ELSE SubSeq(s, j, k - 1))
             \o CollapseFromFour(s, k)

CollapseNewlinesFour(s) == CollapseFromFour(s, 1)

CollapseNewlines(s) == CollapseFrom(s, 1)

\* ------------------------------------------------------------- the regexes
\* (?:sqliteTable|pgTable|mysqlTable)\s*\(\s*["']<tableName>["'] matched
\* with the table function at position i
CallAt(s, i, t) ==
    /\ At(s, i) \in TableFns
    /\ LET p == SkipWhile(s, i + 1, WhiteSpace)
       IN  /\ At(s, p) = "("
           /\ At(s, SkipWhile(s, p + 1, WhiteSpace)) = Quoted(t)

\* pattern.test(content) of modelExistsInSchema: unanchored
existsPattern(content, t) == \E i \in 1..Len(content) : CallAt(content, i, t)

\* tablePattern.test(line) of removeModelFromSchemaContent:
\* ^export\s+const\s+\w+\s*=\s*(?:sqliteTable|pgTable|mysqlTable)\s*\(\s*["']t["']
tablePattern(line, t) ==
    /\ At(line, 1) = "export"
    /\ LET a == SkipWhile(line, 2, WhiteSpace)
       IN  /\ a > 2
           /\ At(line, a) = "const"
           /\ LET b == SkipWhile(line, a + 1, WhiteSpace)
                  c == SkipWhile(line, b, WordTokens)
                  d == SkipWhile(line, c, WhiteSpace)
              IN  /\ b > a + 1
                  /\ c > b
                  /\ At(line, d) = "="
                  /\ CallAt(line, SkipWhile(line, d + 1, WhiteSpace), t)

\* ------------------------------------------------------------- the engine
\* number of tokens of the line equal to tok
Count(line, tok) == Cardinality({ i \in 1..Len(line) : line[i] = tok })

\* ScanLoop that looks at each line for a brace instead of counting the
\* braces of the line.
RECURSIVE ScanLoopPerLine(_, _, _, _, _, _)
ScanLoopPerLine(lines, t, i, startIdx, braceCount, foundOpenBrace) ==
    IF i > Len(lines) THEN [startIdx |-> startIdx, endIdx |-> 0]
    ELSE IF startIdx = 0 /\ ~tablePattern(lines[i], t)
         THEN ScanLoopPerLine(lines, t, i + 1, 0, braceCount, foundOpenBrace)
         ELSE LET start == IF startIdx = 0 THEN i ELSE startIdx
                  opens == IF Count(lines[i], "{") > 0 THEN 1 ELSE 0
                  closes == IF Count(lines[i], "}") > 0 THEN 1 ELSE 0
                  count == braceCount + opens - closes
                  found == foundOpenBrace \/ opens > 0
              IN  IF found /\ count = 0
                  THEN [startIdx |-> start, endIdx |-> i]
                  ELSE ScanLoopPerLine(lines, t, i + 1, start, count, found)

\* The for loop of removeModelFromSchemaContent from line i on.  Indices are
\* 1-based; 0 stands for the -1 of the source.  Gives startIdx and endIdx
\* as they are when the loop is left.
RECURSIVE ScanLoop(_, _, _, _, _, _)
ScanLoop(lines, t, i, startIdx, braceCount, foundOpenBrace) ==
    IF i > Len(lines) THEN [startIdx |-> startIdx, endIdx |-> 0]
    ELSE IF startIdx = 0 /\ ~tablePattern(lines[i], t)
         THEN ScanLoop(lines, t, i + 1, 0, braceCount, foundOpenBrace)
         ELSE LET start == IF startIdx = 0 THEN i ELSE startIdx
                  opens == Count(lines[i], "{")
                  count == braceCount + opens - Count(lines[i], "}")
                  found == foundOpenBrace \/ opens > 0
              IN  IF found /\ count = 0
                  THEN [startIdx |-> start, endIdx |-> i]
                  ELSE ScanLoop(lines, t, i + 1, start, count, found)

\* removeModelFromSchemaContent that cleans up the blank lines on every
\* path.
removeModelAlwaysCleaning(content, t) ==
    LET lines == Split(content)
        r == ScanLoop(lines, t, 1, 0, 0, FALSE)
    IN  IF r.startIdx = 0 \/ r.endIdx = 0 THEN CollapseNewlines(content)
        ELSE CollapseNewlines(Join(Splice(lines, r.startIdx, r.endIdx)))

removeModelFromSchemaContent(content, t) ==
    LET lines == Split(content)
        r == ScanLoop(lines, t, 1, 0, 0, FALSE)
    IN  IF r.startIdx = 0 \/ r.endIdx = 0 THEN content
        ELSE CollapseNewlines(Join(Splice(lines, r.startIdx, r.endIdx)))

\* ------------------------------------------------------------ the contents
RECURSIVE SeqsUpTo(_, _)
SeqsUpTo(S, n) ==
    IF n = 0 THEN { << >> }
    ELSE LET shorter == SeqsUpTo(S, n - 1)
         IN  shorter \cup { Append(q, x) : q \in shorter, x \in S }

\* every content put together from at most n of the pieces, joined by
\* newlines
ContentsOf(pieces, n) == { Join(cs) : cs \in SeqsUpTo(pieces, n) \ { << >> } }

Contents(n) == ContentsOf(Chunks, n)

\* A well-formed block for table t: the header line, the body lines and the
\* closing line, or the one-line form; no newline after the closing line.
Blocks(t) ==
    { Join(<< Header(t) >> \o body \o << CloseLine >>) :
        body \in SeqsUpTo({TextLine}, MaxBody) }
    \cup { Header(t) \o CloseLine }

\* Insertion of a block: the content, a newline, the block.
insertBlock(content, block) == content \o << NL >> \o block

\* ------------------------------------------------------------------ names
LowerCase ==
    << "a", "b", "c", "d", "e", "f", "g", "h", "i", "j", "k", "l", "m",
       "n", "o", "p", "q", "r", "s", "t", "u", "v", "w", "x", "y", "z" >>
UpperCase ==
    << "A", "B", "C", "D", "E", "F", "G", "H", "I", "J", "K", "L", "M",
       "N", "O", "P", "Q", "R", "S", "T", "U", "V", "W", "X", "Y", "Z" >>
Range(f) == { f[i] : i \in DOMAIN f }
Letters == Range(LowerCase) \cup Range(UpperCase)
Digits == { "0", "1", "2", "3", "4", "5", "6", "7", "8", "9" }

\* str.toLowerCase()
toLowerCase(str) ==
    [ i \in 1..Len(str) |->
        IF str[i] \in Range(UpperCase)
        THEN LowerCase[CHOOSE k \in 1..26 : UpperCase[k] = str[i]]
        ELSE str[i] ]

\* the reserved model names of validateModelName
ReservedModelNames ==
    { << "m", "o", "d", "e", "l" >>, << "s", "c", "h", "e", "m", "a" >>,
      << "d", "b" >>, << "d", "a", "t", "a", "b", "a", "s", "e" >>,
      << "t", "a", "b", "l", "e" >> }

\* validateModelName with the reserved words compared as they are written.
validateModelNameCaseSensitive(name) ==
    IF Len(name) = 0 THEN "required"
    ELSE IF ~(name[1] \in Letters
              /\ \A i \in 2..Len(name) : name[i] \in Letters \cup Digits)
    THEN "invalid"
    ELSE IF name \in ReservedModelNames THEN "reserved"
    ELSE "ok"

\* validateModelName(name): "ok", or the error it throws
validateModelName(name) ==
    IF Len(name) = 0 THEN "required"
    ELSE IF ~(name[1] \in Letters
              /\ \A i \in 2..Len(name) : name[i] \in Letters \cup Digits)
    THEN "invalid"
    ELSE IF toLowerCase(name) \in ReservedModelNames THEN "reserved"
    ELSE "ok"

\* str.replace(/([A-Z])/g, "_$1").toLowerCase().replace(/^_/, "")
RECURSIVE UnderscoreUpper(_)
UnderscoreUpper(str) ==
    IF Len(str) = 0 THEN << >>
    ELSE (IF Head(str) \in Range(UpperCase) THEN << "_", Head(str) >>
          ELSE << Head(str) >>) \o UnderscoreUpper(Tail(str))

toSnakeCase(str) ==
    LET lower == toLowerCase(UnderscoreUpper(str))
    IN  IF Len(lower) > 0 /\ lower[1] = "_" THEN Tail(lower) ELSE lower

\* toSnakeCase(str).replace(/_/g, "-")
toKebabCase(str) ==
    LET snake == toSnakeCase(str)
    IN  [ i \in 1..Len(snake) |-> IF snake[i] = "_" THEN "-" ELSE snake[i] ]

\* c.toUpperCase(), c.toLowerCase() of one character
UpperOf(c) ==
    IF c \in Range(LowerCase)
    THEN UpperCase[CHOOSE k \in 1..26 : LowerCase[k] = c]
    ELSE c
LowerOf(c) ==
    IF c \in Range(UpperCase)
    THEN LowerCase[CHOOSE k \in 1..26 : UpperCase[k] = c]
    ELSE c

\* \w of the regular expressions
WordChars == Letters \cup Digits \cup { "_" }

\* str.replace(/[-_](\w)/g, (_, c) => c.toUpperCase())
RECURSIVE UpperAfterSeparator(_)
UpperAfterSeparator(str) ==
    IF Len(str) = 0 THEN << >>
    ELSE IF Len(str) >= 2 /\ str[1] \in { "-", "_" } /\ str[2] \in WordChars
    THEN << UpperOf(str[2]) >> \o UpperAfterSeparator(SubSeq(str, 3, Len(str)))
    ELSE << str[1] >> \o UpperAfterSeparator(Tail(str))

toPascalCase(str) ==
    LET joined == UpperAfterSeparator(str)
    IN  IF Len(joined) > 0 /\ joined[1] \in WordChars
        THEN << UpperOf(joined[1]) >> \o Tail(joined)
        ELSE joined

toCamelCase(str) ==
    LET pascal == toPascalCase(str)
    IN  IF Len(pascal) = 0 THEN << >>
        ELSE << LowerOf(pascal[1]) >> \o Tail(pascal)

\* str.endsWith(suffix), str.slice(0, -n)
HasSuffix(str, suffix) ==
    /\ Len(str) >= Len(suffix)
    /\ SubSeq(str, Len(str) - Len(suffix) + 1, Len(str)) = suffix
DropLast(str, n) == SubSeq(str, 1, Len(str) - n)

Vowels == { "a", "e", "i", "o", "u" }

\* pluralize(str), with the rules for the endings y, s, x, ch and sh
pluralize(str) ==
    IF /\ HasSuffix(str, << "y" >>)
       /\ ~(Len(str) >= 2 /\ str[Len(str) - 1] \in Vowels)
    THEN DropLast(str, 1) \o << "i", "e", "s" >>
    ELSE IF \/ HasSuffix(str, << "s" >>) \/ HasSuffix(str, << "x" >>)
            \/ HasSuffix(str, << "c", "h" >>) \/ HasSuffix(str, << "s", "h" >>)
    THEN str \o << "e", "s" >>
    ELSE str \o << "s" >>

\* singularize(str), with the rules for the endings ies, es and s
singularize(str) ==
    IF HasSuffix(str, << "i", "e", "s" >>)
    THEN DropLast(str, 3) \o << "y" >>
    ELSE IF /\ HasSuffix(str, << "e", "s" >>)
            /\ \/ HasSuffix(str, << "x", "e", "s" >>)
               \/ HasSuffix(str, << "c", "h", "e", "s" >>)
               \/ HasSuffix(str, << "s", "h", "e", "s" >>)
               \/ HasSuffix(str, << "s", "s", "e", "s" >>)
    THEN DropLast(str, 2)
    ELSE IF HasSuffix(str, << "s" >>) /\ ~HasSuffix(str, << "s", "s" >>)
    THEN DropLast(str, 1)
    ELSE str

\* createModelContext(name)
createModelContext(name) ==
    LET singularName == singularize(name)
        pluralName == pluralize(singularName)
    IN  [ name |-> name,
          singularName |-> singularName,
          pluralName |-> pluralName,
          pascalName |-> toPascalCase(singularName),
          pascalPlural |-> toPascalCase(pluralName),
          camelName |-> toCamelCase(singularName),
          camelPlural |-> toCamelCase(pluralName),
          snakeName |-> toSnakeCase(singularName),
          snakePlural |-> toSnakeCase(pluralName),
          kebabName |-> toKebabCase(singularName),
          kebabPlural |-> toKebabCase(pluralName),
          tableName |-> pluralize(toSnakeCase(singularName)) ]

\* ----------------------------------------------------------------- fields
\* A field definition is the sequence of its characters, as a model name is.
StringType == << "s", "t", "r", "i", "n", "g" >>
IntegerType == << "i", "n", "t", "e", "g", "e", "r" >>
EnumType == << "e", "n", "u", "m" >>
ReferencesType == << "r", "e", "f", "e", "r", "e", "n", "c", "e", "s" >>
UniqueModifier == << "u", "n", "i", "q", "u", "e" >>

VALID_FIELD_TYPES ==
    { << "s", "t", "r", "i", "n", "g" >>, << "t", "e", "x", "t" >>,
      << "i", "n", "t", "e", "g", "e", "r" >>, << "i", "n", "t" >>,
      << "b", "i", "g", "i", "n", "t" >>,
      << "b", "o", "o", "l", "e", "a", "n" >>, << "b", "o", "o", "l" >>,
      << "d", "a", "t", "e", "t", "i", "m", "e" >>,
      << "t", "i", "m", "e", "s", "t", "a", "m", "p" >>,
      << "d", "a", "t", "e" >>, << "f", "l", "o", "a", "t" >>,
      << "d", "e", "c", "i", "m", "a", "l" >>, << "j", "s", "o", "n" >>,
      << "u", "u", "i", "d" >> }

SQL_RESERVED_WORDS ==
    { << "s", "e", "l", "e", "c", "t" >>, << "f", "r", "o", "m" >>,
      << "w", "h", "e", "r", "e" >>, << "i", "n", "s", "e", "r", "t" >>,
      << "u", "p", "d", "a", "t", "e" >>, << "d", "e", "l", "e", "t", "e" >>,
      << "d", "r", "o", "p" >>, << "c", "r", "e", "a", "t", "e" >>,
      << "a", "l", "t", "e", "r" >>, << "i", "n", "d", "e", "x" >>,
      << "t", "a", "b", "l", "e" >>, << "c", "o", "l", "u", "m", "n" >>,
      << "d", "a", "t", "a", "b", "a", "s", "e" >>,
      << "s", "c", "h", "e", "m", "a" >>, << "a", "n", "d" >>,
      << "o", "r" >>, << "n", "o", "t" >>, << "n", "u", "l", "l" >>,
      << "t", "r", "u", "e" >>, << "f", "a", "l", "s", "e" >>,
      << "o", "r", "d", "e", "r" >>, << "b", "y" >>,
      << "g", "r", "o", "u", "p" >>, << "h", "a", "v", "i", "n", "g" >>,
      << "l", "i", "m", "i", "t" >>, << "o", "f", "f", "s", "e", "t" >>,
      << "j", "o", "i", "n" >>, << "l", "e", "f", "t" >>,
      << "r", "i", "g", "h", "t" >>, << "i", "n", "n", "e", "r" >>,
      << "o", "u", "t", "e", "r" >>, << "o", "n" >>, << "a", "s" >>,
      << "i", "n" >>, << "b", "e", "t", "w", "e", "e", "n" >>,
      << "l", "i", "k", "e" >>, << "i", "s" >>, << "c", "a", "s", "e" >>,
      << "w", "h", "e", "n" >>, << "t", "h", "e", "n" >>,
      << "e", "l", "s", "e" >>, << "e", "n", "d" >>,
      << "e", "x", "i", "s", "t", "s" >>,
      << "d", "i", "s", "t", "i", "n", "c", "t" >>, << "a", "l", "l" >>,
      << "a", "n", "y" >>, << "u", "n", "i", "o", "n" >>,
      << "i", "n", "t", "e", "r", "s", "e", "c", "t" >>,
      << "e", "x", "c", "e", "p", "t" >>,
      << "p", "r", "i", "m", "a", "r", "y" >>,
      << "f", "o", "r", "e", "i", "g", "n" >>, << "k", "e", "y" >>,
      << "r", "e", "f", "e", "r", "e", "n", "c", "e", "s" >>,
      << "u", "n", "i", "q", "u", "e" >>,
      << "d", "e", "f", "a", "u", "l", "t" >>, << "c", "h", "e", "c", "k" >>,
      << "c", "o", "n", "s", "t", "r", "a", "i", "n", "t" >>,
      << "i", "n", "t" >>, << "i", "n", "t", "e", "g", "e", "r" >>,
      << "f", "l", "o", "a", "t" >>, << "d", "o", "u", "b", "l", "e" >>,
      << "d", "e", "c", "i", "m", "a", "l" >>,
      << "n", "u", "m", "e", "r", "i", "c" >>,
      << "b", "o", "o", "l", "e", "a", "n" >>, << "b", "o", "o", "l" >>,
      << "t", "e", "x", "t" >>, << "v", "a", "r", "c", "h", "a", "r" >>,
      << "c", "h", "a", "r" >>, << "d", "a", "t", "e" >>,
      << "t", "i", "m", "e" >>,
      << "t", "i", "m", "e", "s", "t", "a", "m", "p" >>,
      << "d", "a", "t", "e", "t", "i", "m", "e" >> }

\* str.split(sep), for a separator of one character
RECURSIVE SplitOnFrom(_, _, _)
SplitOnFrom(str, i, sep) ==
    LET j == Find(str, i, {sep})
    IN  IF j > Len(str) THEN << SubSeq(str, i, Len(str)) >>
        ELSE << SubSeq(str, i, j - 1) >> \o SplitOnFrom(str, j + 1, sep)

SplitOn(str, sep) == SplitOnFrom(str, 1, sep)

\* str.endsWith(ch), str.startsWith(prefix)
endsWith(str, ch) == Len(str) > 0 /\ str[Len(str)] = ch
startsWith(str, prefix) ==
    Len(str) >= Len(prefix) /\ SubSeq(str, 1, Len(prefix)) = prefix

\* if (x.endsWith("?")) x = x.slice(0, -1)
StripNullable(str) ==
    IF endsWith(str, "?") THEN SubSeq(str, 1, Len(str) - 1) ELSE str

\* parts[0], and parts[1] || "string"; parts is counted from 1 here
NamePart(parts) == parts[1]
TypePart(parts) ==
    IF Len(parts) >= 2 /\ parts[2] # << >> THEN parts[2] ELSE StringType

\* /^[a-z][a-zA-Z0-9]*$/.test(name)
CamelCaseName(name) ==
    /\ Len(name) > 0
    /\ name[1] \in Range(LowerCase)
    /\ \A i \in 2..Len(name) : name[i] \in Letters \cup Digits

\* /^[a-zA-Z][a-zA-Z0-9_-]*$/.test(value)
EnumValueName(value) ==
    /\ Len(value) > 0
    /\ value[1] \in Letters
    /\ \A i \in 2..Len(value) : value[i] \in Letters \cup Digits \cup { "_", "-" }

\* The name checks with the reserved words looked up before the pattern.
NameErrorReservedFirst(name) ==
    IF name = << >> THEN "required"
    ELSE IF toLowerCase(name) \in SQL_RESERVED_WORDS THEN "reserved"
    ELSE IF ~CamelCaseName(name) THEN "invalidName"
    ELSE "ok"

\* the name checks of validateFieldDefinition: "ok" or the error thrown
NameError(name) ==
    IF name = << >> THEN "required"
    ELSE IF ~CamelCaseName(name) THEN "invalidName"
    ELSE IF toLowerCase(name) \in SQL_RESERVED_WORDS THEN "reserved"
    ELSE "ok"

\* the type check of validateFieldDefinition
TypeError(type) ==
    IF /\ type # << >>
       /\ ~startsWith(type, ReferencesType)
       /\ type # EnumType
       /\ type # UniqueModifier
       /\ type \notin VALID_FIELD_TYPES
    THEN "invalidType"
    ELSE "ok"

\* The checks of the enum values without the test for equal values.
EnumErrorNoDuplicates(parts) ==
    IF Len(parts) < 3 \/ parts[3] = << >> \/ parts[3] = UniqueModifier
    THEN "requiresValues"
    ELSE LET values == SplitOn(parts[3], ",")
             bad == { i \in 1..Len(values) :
                        values[i] = << >> \/ ~EnumValueName(values[i]) }
         IN  IF bad # {}
             THEN (IF values[Least(bad)] = << >> THEN "emptyValue"
                   ELSE "invalidValue")
             ELSE "ok"

\* the checks of the enum values of validateFieldDefinition, on parts[2]
EnumError(parts) ==
    IF Len(parts) < 3 \/ parts[3] = << >> \/ parts[3] = UniqueModifier
    THEN "requiresValues"
    ELSE LET values == SplitOn(parts[3], ",")
             bad == { i \in 1..Len(values) :
                        values[i] = << >> \/ ~EnumValueName(values[i]) }
         IN  IF bad # {}
             THEN (IF values[Least(bad)] = << >> THEN "emptyValue"
                   ELSE "invalidValue")
             ELSE IF Cardinality(Range(values)) # Len(values)
             THEN "duplicate"
             ELSE "ok"

\* validateFieldDefinition(fieldDef): "ok", or the error it throws
validateFieldDefinition(fieldDef) ==
    LET parts == SplitOn(fieldDef, ":")
        name == StripNullable(NamePart(parts))
        type == StripNullable(TypePart(parts))
    IN  IF NameError(name) # "ok" THEN NameError(name)
        ELSE IF TypeError(type) # "ok" THEN TypeError(type)
        ELSE IF type = EnumType THEN EnumError(parts)
        ELSE "ok"

\* A key of a Field that can be left out or undefined.
Undefined == [ defined |-> FALSE, value |-> << >> ]
Defined(v) == [ defined |-> TRUE, value |-> v ]

\* nullable, from the name segment only.
nullableOfName(name, type) == endsWith(name, "?")

\* const nullable = name.endsWith("?") || type.endsWith("?")
nullableOf(name, type) == endsWith(name, "?") \/ endsWith(type, "?")

\* the body of the map of parseFields after the validation: the Field of
\* one field definition
parseField(field) ==
    LET parts == SplitOn(field, ":")
        nullable == nullableOf(NamePart(parts), TypePart(parts))
        name == StripNullable(NamePart(parts))
        type == StripNullable(TypePart(parts))
        unique == \E i \in 1..Len(parts) : parts[i] = UniqueModifier
    IN  IF type = ReferencesType
        THEN [ name |-> name, type |-> IntegerType, isReference |-> TRUE,
               referenceTo |-> IF Len(parts) >= 3 THEN Defined(parts[3])
                               ELSE Undefined,
               isEnum |-> FALSE, enumValues |-> Undefined,
               nullable |-> nullable, unique |-> unique ]
        ELSE IF type = EnumType
        THEN [ name |-> name, type |-> EnumType, isReference |-> FALSE,
               referenceTo |-> Undefined,
               isEnum |-> TRUE,
               enumValues |-> IF Len(parts) >= 3
                              THEN Defined(SplitOn(parts[3], ","))
                              ELSE Defined(<< >>),
               nullable |-> nullable, unique |-> unique ]
        ELSE [ name |-> name, type |-> type, isReference |-> FALSE,
               referenceTo |-> Undefined,
               isEnum |-> FALSE, enumValues |-> Undefined,
               nullable |-> nullable, unique |-> unique ]

\* parseFields with the Fields in the opposite order.
parseFieldsReversed(fields) ==
    LET n == Len(fields)
        errors == { i \in 1..n : validateFieldDefinition(fields[i]) # "ok" }
    IN  IF errors # {}
        THEN [ error |-> validateFieldDefinition(fields[Least(errors)]),
               fields |-> << >> ]
        ELSE [ error |-> "none",
               fields |-> [ i \in 1..n |-> parseField(fields[n + 1 - i]) ] ]

\* parseFields(fields): the Fields, or the error of the first field
\* definition that validateFieldDefinition rejects
parseFields(fields) ==
    LET n == Len(fields)
        errors == { i \in 1..n : validateFieldDefinition(fields[i]) # "ok" }
    IN  IF errors # {}
        THEN [ error |-> validateFieldDefinition(fields[Least(errors)]),
               fields |-> << >> ]
        ELSE [ error |-> "none",
               fields |-> [ i \in 1..n |-> parseField(fields[i]) ] ]

\* --------------------------------------------------------- drizzle columns
\* A column definition is the sequence of its tokens; the call of a column
\* function is the name of the function, then "(".
Dialects == { "sqlite", "postgresql", "mysql" }

\* the type maps, as pairs of field type and drizzle type
SQLITE_TYPE_MAP ==
    {
      << << "s", "t", "r", "i", "n", "g" >>,
         << "text" >> >>,
      << << "t", "e", "x", "t" >>,
         << "text" >> >>,
      << << "i", "n", "t", "e", "g", "e", "r" >>,
         << "integer" >> >>,
      << << "i", "n", "t" >>,
         << "integer" >> >>,
      << << "b", "i", "g", "i", "n", "t" >>,
         << "integer" >> >>,
      << << "b", "o", "o", "l", "e", "a", "n" >>,
         << "integer", "(", "mode:boolean", ")" >> >>,
      << << "b", "o", "o", "l" >>,
         << "integer", "(", "mode:boolean", ")" >> >>,
      << << "d", "a", "t", "e", "t", "i", "m", "e" >>,
         << "integer", "(", "mode:timestamp", ")" >> >>,
      << << "t", "i", "m", "e", "s", "t", "a", "m", "p" >>,
         << "integer", "(", "mode:timestamp", ")" >> >>,
      << << "d", "a", "t", "e" >>,
         << "integer", "(", "mode:timestamp", ")" >> >>,
      << << "f", "l", "o", "a", "t" >>,
         << "real" >> >>,
      << << "d", "e", "c", "i", "m", "a", "l" >>,
         << "text" >> >>,
      << << "j", "s", "o", "n" >>,
         << "text" >> >>,
      << << "u", "u", "i", "d" >>,
         << "text" >> >> }

POSTGRESQL_TYPE_MAP ==
    {
      << << "s", "t", "r", "i", "n", "g" >>,
         << "text" >> >>,
      << << "t", "e", "x", "t" >>,
         << "text" >> >>,
      << << "i", "n", "t", "e", "g", "e", "r" >>,
         << "integer" >> >>,
      << << "i", "n", "t" >>,
         << "integer" >> >>,
      << << "b", "i", "g", "i", "n", "t" >>,
         << "bigint" >> >>,
      << << "b", "o", "o", "l", "e", "a", "n" >>,
         << "boolean" >> >>,
      << << "b", "o", "o", "l" >>,
         << "boolean" >> >>,
      << << "d", "a", "t", "e", "t", "i", "m", "e" >>,
         << "timestamp" >> >>,
      << << "t", "i", "m", "e", "s", "t", "a", "m", "p" >>,
         << "timestamp" >> >>,
      << << "d", "a", "t", "e" >>,
         << "date" >> >>,
      << << "f", "l", "o", "a", "t" >>,
         << "doublePrecision" >> >>,
      << << "d", "e", "c", "i", "m", "a", "l" >>,
         << "numeric" >> >>,
      << << "j", "s", "o", "n" >>,
         << "jsonb" >> >>,
      << << "u", "u", "i", "d" >>,
         << "uuid" >> >> }

MYSQL_TYPE_MAP ==
    {
      << << "s", "t", "r", "i", "n", "g" >>,
         << "varchar" >> >>,
      << << "t", "e", "x", "t" >>,
         << "text" >> >>,
      << << "i", "n", "t", "e", "g", "e", "r" >>,
         << "int" >> >>,
      << << "i", "n", "t" >>,
         << "int" >> >>,
      << << "b", "i", "g", "i", "n", "t" >>,
         << "bigint" >> >>,
      << << "b", "o", "o", "l", "e", "a", "n" >>,
         << "boolean" >> >>,
      << << "b", "o", "o", "l" >>,
         << "boolean" >> >>,
      << << "d", "a", "t", "e", "t", "i", "m", "e" >>,
         << "datetime" >> >>,
      << << "t", "i", "m", "e", "s", "t", "a", "m", "p" >>,
         << "timestamp" >> >>,
      << << "d", "a", "t", "e" >>,
         << "date" >> >>,
      << << "f", "l", "o", "a", "t" >>,
         << "double" >> >>,
      << << "d", "e", "c", "i", "m", "a", "l" >>,
         << "decimal" >> >>,
      << << "j", "s", "o", "n" >>,
         << "json" >> >>,
      << << "u", "u", "i", "d" >>,
         << "varchar" >> >> }

\* typeMap[key], undefined for a key the map does not have
Lookup(typeMap, key) ==
    LET rows == { r \in typeMap : r[1] = key }
    IN  IF rows = {} THEN << >> ELSE (CHOOSE r \in rows : TRUE)[2]

\* drizzleType with the type map of sqlite for every dialect.
drizzleTypeOfSqlite(field, dialect) ==
    IF Lookup(SQLITE_TYPE_MAP, field.type) # << >>
    THEN Lookup(SQLITE_TYPE_MAP, field.type)
    ELSE << "text" >>

\* drizzleType(field, dialect)
drizzleType(field, dialect) ==
    LET typeMap == IF dialect = "postgresql" THEN POSTGRESQL_TYPE_MAP
                   ELSE IF dialect = "mysql" THEN MYSQL_TYPE_MAP
                   ELSE SQLITE_TYPE_MAP
    IN  IF Lookup(typeMap, field.type) # << >>
        THEN Lookup(typeMap, field.type)
        ELSE << "text" >>

\* getTableFunction(dialect)
getTableFunction(dialect) ==
    IF dialect = "postgresql" THEN "pgTable"
    ELSE IF dialect = "mysql" THEN "mysqlTable"
    ELSE "sqliteTable"

\* getDrizzleImport(dialect)
getDrizzleImport(dialect) ==
    IF dialect = "postgresql" THEN "drizzle-orm/pg-core"
    ELSE IF dialect = "mysql" THEN "drizzle-orm/mysql-core"
    ELSE "drizzle-orm/sqlite-core"

\* getIdColumn(dialect, useUuid)
getIdColumn(dialect, useUuid) ==
    IF useUuid
    THEN IF dialect = "postgresql"
         THEN << "id:", "uuid", "(", "id", ")", ".primaryKey()",
                 ".defaultRandom()" >>
         ELSE IF dialect = "mysql"
         THEN << "id:", "varchar", "(", "id", "length:36", ")",
                 ".primaryKey()", ".$defaultFn(randomUUID)" >>
         ELSE << "id:", "text", "(", "id", ")", ".primaryKey()",
                 ".$defaultFn(randomUUID)" >>
    ELSE IF dialect = "postgresql"
         THEN << "id:", "serial", "(", "id", ")", ".primaryKey()" >>
         ELSE IF dialect = "mysql"
         THEN << "id:", "int", "(", "id", ")", ".primaryKey()",
                 ".autoincrement()" >>
         ELSE << "id:", "integer", "(", "id", ")",
                 ".primaryKey(autoIncrement)" >>

\* getTimestampColumns(dialect, noTimestamps); << >> for null
getTimestampColumns(dialect, noTimestamps) ==
    IF noTimestamps THEN << >>
    ELSE IF dialect = "postgresql"
    THEN << "createdAt:", "timestamp", "(", "created_at", ")", ".notNull()",
            ".defaultNow()", ",",
            "updatedAt:", "timestamp", "(", "updated_at", ")", ".notNull()",
            ".defaultNow()" >>
    ELSE IF dialect = "mysql"
    THEN << "createdAt:", "datetime", "(", "created_at", ")", ".notNull()",
            ".$defaultFn(Date)", ",",
            "updatedAt:", "datetime", "(", "updated_at", ")", ".notNull()",
            ".$defaultFn(Date)" >>
    ELSE << "createdAt:", "integer", "(", "created_at", "mode:timestamp", ")",
            ".notNull()", ".$defaultFn(Date)", ",",
            "updatedAt:", "integer", "(", "updated_at", "mode:timestamp", ")",
            ".notNull()", ".$defaultFn(Date)" >>

\* types.add(x) on the names added so far, in the order they were added
SetAdd(types, x) == IF x \in Range(types) THEN types ELSE Append(types, x)

\* drizzleTypeDef.split("(")[0]
BaseType(drizzleTypeDef) ==
    IF Find(drizzleTypeDef, 1, { "(" }) = 1 THEN ""
    ELSE drizzleTypeDef[1]

\* The loop over the fields that does not skip the enum fields.
FieldTypesWithEnums(types, fields, dialect, i) ==
    LET all[ k \in 0..Len(fields) ] ==
            IF k = 0 THEN types
            ELSE SetAdd(all[k - 1], BaseType(drizzleType(fields[k], dialect)))
    IN  all[Len(fields)]

\* the loop of getRequiredImports over the fields, from the i-th on
FieldTypes(types, fields, dialect, i) ==
    LET all[ k \in (i - 1)..Len(fields) ] ==
            IF k = i - 1 THEN types
            ELSE IF fields[k].isEnum THEN all[k - 1]
            ELSE SetAdd(all[k - 1], BaseType(drizzleType(fields[k], dialect)))
    IN  all[Len(fields)]

\* getRequiredImports(fields, dialect, options)
getRequiredImports(fields, dialect, options) ==
    LET table == << getTableFunction(dialect) >>
        id == SetAdd(table,
                     IF options.uuid
                     THEN (IF dialect = "postgresql" THEN "uuid"
                           ELSE IF dialect = "mysql" THEN "varchar"
                           ELSE "text")
                     ELSE (IF dialect = "postgresql" THEN "serial"
                           ELSE IF dialect = "mysql" THEN "int"
                           ELSE "integer"))
        timestamps == IF options.noTimestamps THEN id
                      ELSE IF dialect = "postgresql"
                      THEN SetAdd(id, "timestamp")
                      ELSE IF dialect = "mysql" THEN SetAdd(id, "datetime")
                      ELSE id
        hasEnums == \E k \in 1..Len(fields) : fields[k].isEnum
        enums == IF ~hasEnums THEN timestamps
                 ELSE IF dialect = "postgresql"
                 THEN SetAdd(timestamps, "pgEnum")
                 ELSE IF dialect = "mysql" THEN SetAdd(timestamps, "mysqlEnum")
                 ELSE timestamps
        user == FieldTypes(enums, fields, dialect, 1)
    IN  IF dialect = "sqlite" /\ hasEnums THEN SetAdd(user, "text") ELSE user

\* ------------------------------------------------------ the import line
\* `"${drizzleImport}"`
DoubleQuoted(drizzleImport) ==
    IF drizzleImport = "drizzle-orm/pg-core" THEN "\"drizzle-orm/pg-core\""
    ELSE IF drizzleImport = "drizzle-orm/mysql-core"
    THEN "\"drizzle-orm/mysql-core\""
    ELSE "\"drizzle-orm/sqlite-core\""

\* ["']drizzle-orm\/[^"']+["'] : the quoted module names that match
DrizzleModules ==
    { "\"drizzle-orm/sqlite-core\"", "\"drizzle-orm/pg-core\"",
      "\"drizzle-orm/mysql-core\"", "'drizzle-orm/sqlite-core'" }

\* import\s*\{([^}]+)\}\s*from\s*["']drizzle-orm\/[^"']+["'] matched with
\* import at position i, with ;? at its end for semicolon: the positions of
\* the two braces and the position after the match, or end 0 for no match
ImportAt(s, i, semicolon) ==
    LET open == SkipWhile(s, i + 1, WhiteSpace)
        close == Find(s, open + 1, { "}" })
        from == SkipWhile(s, close + 1, WhiteSpace)
        module == SkipWhile(s, from + 1, WhiteSpace)
        matches == /\ At(s, i) = "import"
                   /\ At(s, open) = "{"
                   /\ close <= Len(s)
                   /\ close > open + 1
                   /\ At(s, from) = "from"
                   /\ At(s, module) \in DrizzleModules
    IN  [ open |-> open, close |-> close,
          end |-> IF ~matches THEN 0
                  ELSE IF semicolon /\ At(s, module + 1) = ";" THEN module + 2
                  ELSE module + 1 ]

\* the positions at which the regular expression matches
ImportMatches(s, semicolon) ==
    { i \in 1..Len(s) : s[i] = "import" /\ ImportAt(s, i, semicolon).end # 0 }

\* s.trim()
Trim(s) ==
    LET kept == { i \in 1..Len(s) : s[i] \notin WhiteSpace }
    IN  IF kept = {} THEN << >>
        ELSE SubSeq(s, Least(kept), CHOOSE i \in kept : \A k \in kept : k <= i)

\* extractImportsFromSchema(content); an import is the sequence of its tokens
extractImportsFromSchema(content) ==
    LET matches == ImportMatches(content, FALSE)
    IN  IF matches = {} THEN << >>
        ELSE LET m == ImportAt(content, Least(matches), FALSE)
                 parts == SplitOn(SubSeq(content, m.open + 1, m.close - 1), ",")
             IN  SelectSeq([ k \in 1..Len(parts) |-> Trim(parts[k]) ],
                           LAMBDA part : Len(part) > 0)

\* Array.from(new Set(list))
ArrayFromSet(list) ==
    LET all[ k \in 0..Len(list) ] ==
            IF k = 0 THEN << >> ELSE SetAdd(all[k - 1], list[k])
    IN  all[Len(list)]

\* The merge with the new imports before the existing ones.
mergedImportsNewFirst(existingImports, newImports) ==
    ArrayFromSet(newImports \o existingImports)

\* Array.from(new Set([...existingImports, ...newImports]))
mergedImports(existingImports, newImports) ==
    ArrayFromSet(existingImports \o newImports)

\* mergedImports.join(", ")
RECURSIVE JoinImports(_)
JoinImports(imports) ==
    IF Len(imports) = 0 THEN << >>
    ELSE IF Len(imports) = 1 THEN imports[1]
    ELSE imports[1] \o << ",", SP >> \o JoinImports(Tail(imports))

\* `import { ${mergedImports.join(", ")} } from "${drizzleImport}";`
newImportLine(imports, dialect) ==
    << "import", SP, "{", SP >> \o JoinImports(imports)
    \o << SP, "}", SP, "from", SP, DoubleQuoted(getDrizzleImport(dialect)),
          ";" >>

\* updateSchemaImports that puts the new line before the content whether or
\* not the content has an import of a drizzle package.
updateSchemaImportsPrepending(content, newImports, dialect) ==
    newImportLine(mergedImports(extractImportsFromSchema(content),
                                [ k \in 1..Len(newImports) |->
                                    << newImports[k] >> ]), dialect)
    \o << NL >> \o content

\* updateSchemaImports(content, newImports, dialect)
updateSchemaImports(content, newImports, dialect) ==
    LET existingImports == extractImportsFromSchema(content)
        line == newImportLine(
                    mergedImports(existingImports,
                                  [ k \in 1..Len(newImports) |->
                                      << newImports[k] >> ]), dialect)
        matches == ImportMatches(content, TRUE)
    IN  IF matches # {}
        THEN SubSeq(content, 1, Least(matches) - 1) \o line
             \o SubSeq(content, ImportAt(content, Least(matches), TRUE).end,
                       Len(content))
        ELSE line \o << NL >> \o content

\* ------------------------------------------------------------- file system
\* A directory path is the directory it is in and its name.
ScaffoldPath(ctx) == [ root |-> "app", dir |-> ctx.kebabPlural ]
ApiPath(ctx) == [ root |-> "app/api", dir |-> ctx.kebabPlural ]

\* writeFile with the dry-run test before the test of the existing file.
writeFileDryRunFirst(exists, old, new, force, dryRun) ==
    IF dryRun
    THEN [ exists |-> exists, text |-> old, ops |-> << >>, ret |-> TRUE ]
    ELSE IF exists /\ ~force
    THEN [ exists |-> exists, text |-> old, ops |-> << >>, ret |-> FALSE ]
    ELSE [ exists |-> TRUE, text |-> new, ops |-> << "writeFileSync" >>,
           ret |-> TRUE ]

\* writeFile(filePath, content, options) on a file that exists or not:
\* what the file is afterwards, the calls of fs.writeFileSync and the value
\* returned
writeFile(exists, old, new, force, dryRun) ==
    IF exists /\ ~force
    THEN [ exists |-> exists, text |-> old, ops |-> << >>, ret |-> FALSE ]
    ELSE IF dryRun
    THEN [ exists |-> exists, text |-> old, ops |-> << >>, ret |-> TRUE ]
    ELSE [ exists |-> TRUE, text |-> new, ops |-> << "writeFileSync" >>,
           ret |-> TRUE ]

\* deleteDirectory without the return of the dry run.
deleteDirectoryInDryRun(ds, dirPath, dryRun) ==
    IF dirPath \notin ds
    THEN [ dirs |-> ds, ops |-> << >>, ret |-> FALSE ]
    ELSE [ dirs |-> ds \ { dirPath }, ops |-> << "rmSync" >>, ret |-> TRUE ]

\* deleteDirectory(dirPath, options): the directories afterwards, the calls
\* of fs.rmSync and the value returned
deleteDirectory(ds, dirPath, dryRun) ==
    IF dirPath \notin ds
    THEN [ dirs |-> ds, ops |-> << >>, ret |-> FALSE ]
    ELSE IF dryRun
    THEN [ dirs |-> ds, ops |-> << >>, ret |-> TRUE ]
    ELSE [ dirs |-> ds \ { dirPath }, ops |-> << "rmSync" >>, ret |-> TRUE ]

\* fileExists(filePath) for a directory path
fileExists(ds, dirPath) == dirPath \in ds

\* modelExistsInSchema(tableName) on the schema file
modelExistsInSchema(exists, text, t) ==
    IF ~exists THEN FALSE ELSE existsPattern(text, t)

\* removeFromSchema without the early return for a table that is not in
\* the file.
removeFromSchemaUnguarded(exists, text, t, dryRun) ==
    IF ~exists THEN [ exists |-> exists, text |-> text, ops |-> << >> ]
    ELSE LET cleaned == removeModelFromSchemaContent(text, t)
             w == writeFile(exists, text, cleaned, TRUE, dryRun)
         IN  [ exists |-> w.exists, text |-> w.text,
               ops |-> << "readFileSync", "readFileSync" >> \o w.ops ]

\* removeFromSchema(tableName, options): the schema file afterwards and the
\* reads and writes of it
removeFromSchema(exists, text, t, dryRun) ==
    IF ~exists THEN [ exists |-> exists, text |-> text, ops |-> << >> ]
    ELSE IF ~existsPattern(text, t)
    THEN [ exists |-> exists, text |-> text, ops |-> << "readFileSync" >> ]
    ELSE LET cleaned == removeModelFromSchemaContent(text, t)
             w == writeFile(exists, text, cleaned, TRUE, dryRun)
         IN  [ exists |-> w.exists, text |-> w.text,
               ops |-> << "readFileSync", "readFileSync" >> \o w.ops ]

\* ------------------------------------------------------------ references
\* schemaContent.includes(`"${tableName}"`), on a content in which a quoted
\* name is written character by character
includesQuoted(text, t) ==
    LET quoted == << "\"" >> \o t \o << "\"" >>
    IN  \E i \in 1..(Len(text) - Len(quoted) + 1) :
          SubSeq(text, i, i + Len(quoted) - 1) = quoted

\* field.isReference && field.referenceTo
HasTarget(field) ==
    /\ field.isReference
    /\ field.referenceTo.defined
    /\ field.referenceTo.value # << >>

\* the model and the table that validateReferences looks for, for each
\* reference field
ReferenceTables(fieldList) ==
    LET references == SelectSeq(fieldList, HasTarget)
    IN  [ k \in 1..Len(references) |->
            [ model |-> references[k].referenceTo.value,
              table |-> toSnakeCase(pluralize(references[k].referenceTo.value)) ] ]

\* validateReferences that reads the schema file without looking whether it
\* is there.
validateReferencesUnguarded(exists, text, fieldList) ==
    IF ~exists
    THEN [ ops |-> << "readFileSync" >>, checked |-> << >>,
           warnings |-> << >>, threw |-> TRUE ]
    ELSE [ ops |-> << "readFileSync" >>,
           checked |-> ReferenceTables(fieldList),
           warnings |-> SelectSeq(ReferenceTables(fieldList),
                                  LAMBDA c : ~includesQuoted(text, c.table)),
           threw |-> FALSE ]

\* validateReferences(fields): the reads of the schema file, the tables it
\* looked for and the warnings
validateReferences(exists, text, fieldList) ==
    IF ~exists
    THEN [ ops |-> << >>, checked |-> << >>, warnings |-> << >>,
           threw |-> FALSE ]
    ELSE [ ops |-> << "readFileSync" >>,
           checked |-> ReferenceTables(fieldList),
           warnings |-> SelectSeq(ReferenceTables(fieldList),
                                  LAMBDA c : ~includesQuoted(text, c.table)),
           threw |-> FALSE ]

\* ------------------------------------------------------------------ state
VARIABLES
    content,      \* the schema content given to the engine
    tableName,    \* the table name given to the engine
    phase,        \* "input", then "removed" or "roundtrip"
    inserted,     \* the content after insertBlock (<< >> when not used)
    result,       \* what removeModelFromSchemaContent returned
    dirs,         \* the directories that exist
    schemaExists, \* db/schema.ts exists
    schemaText,   \* the content of db/schema.ts
    pc,           \* where the destroy command is: "idle", "confirm", "done"
    run,          \* the arguments of the command that runs
    ops,          \* the prompts and the fs calls of the command, in order
    answer,       \* what the prompt was answered: "true", "false", "cancel"
    outcome,      \* "none", "completed", "aborted" or the error thrown
    before,       \* the file system when the command started
    prev,         \* name and type of the command before, if it completed
                  \* without dry-run and left neither the directory nor the
                  \* table, and whether it rewrote the schema file
    actionsFiles, \* the file actions.ts of each model directory
    ret,          \* what writeFile returned to generateActions
    fields,       \* the field definitions given to parseFields
    parsed,       \* what parseFields returned for them, or the error thrown
    variant,      \* field definitions that differ from fields in one modifier
    parsedVariant, \* what parseFields returned for variant
    fieldPhase,   \* "none", "input", "parsed", "moved" or "withoutUnique"
    gen,          \* the dialect, the options and the Fields of a generated
                  \* model, and the columns and the imports made for them
    imp,          \* a schema content, the imports to add to it, and what
                  \* updateSchemaImports returned for it, once and twice
    refs,         \* the Fields given to validateReferences, the tables it
                  \* looked for and its warnings
    named         \* a model name, its context and that of its plural

engineVars == << content, tableName, phase, inserted, result >>
destroyVars ==
    << dirs, schemaExists, schemaText, pc, run, ops, answer, outcome, before,
       prev, actionsFiles, ret >>
fieldVars == << fields, parsed, variant, parsedVariant, fieldPhase >>
genVars == << gen, imp, refs, named >>
vars == << engineVars, destroyVars, fieldVars, genVars >>

PostName == << "p", "o", "s", "t" >>

\* The directories that generateActions writes actions.ts to, and the state
\* in which none of these files is there.
ActionsDirs == { ScaffoldPath(createModelContext(PostName)) }
NoFile == [ exists |-> FALSE, text |-> << >> ]
NoFiles == [ p \in ActionsDirs |-> NoFile ]

NotParsed == [ error |-> "notParsed", fields |-> << >> ]

\* no field definitions are parsed
NoFields ==
    /\ fields = << >> /\ parsed = NotParsed
    /\ variant = << >> /\ parsedVariant = NotParsed
    /\ fieldPhase = "none"

NoGen ==
    [ phase |-> "none", dialect |-> "sqlite",
      options |-> [ uuid |-> FALSE, noTimestamps |-> FALSE ],
      fields |-> << >>, types |-> << >>, idColumn |-> << >>,
      timestamps |-> << >>, imports |-> << >> ]
NoImp ==
    [ phase |-> "none", content |-> << >>, newImports |-> << >>,
      dialect |-> "sqlite", once |-> << >>, twice |-> << >> ]
NoRefs ==
    [ phase |-> "none", fields |-> << >>, checked |-> << >>,
      warnings |-> << >>, threw |-> FALSE ]
NoContext == [ f \in DOMAIN createModelContext(<< >>) |-> << >> ]
NoCtx ==
    [ phase |-> "none", name |-> << >>, ofName |-> NoContext,
      ofPlural |-> NoContext ]
NoGenerated == gen = NoGen /\ imp = NoImp /\ refs = NoRefs /\ named = NoCtx
NoName == << >>
NoRun == [ name |-> NoName, type |-> "none", force |-> FALSE, dryRun |-> FALSE ]
NoFs ==
    [ dirs |-> {}, schemaExists |-> FALSE, schemaText |-> << >>,
      actionsFiles |-> NoFiles ]
NoPrev == [ name |-> NoName, type |-> "none", removed |-> FALSE ]

\* ------------------------------------------------- the schema-engine checks
Init ==
    /\ content \in Contents(MaxChunks)
    /\ tableName \in TableNames
    /\ phase = "input"
    /\ inserted = << >>
    /\ result = << >>
    /\ dirs = {} /\ schemaExists = FALSE /\ schemaText = << >>
    /\ pc = "idle" /\ run = NoRun /\ ops = << >> /\ answer = "none"
    /\ outcome = "none"
    /\ before = NoFs /\ prev = NoPrev
    /\ actionsFiles = NoFiles /\ ret = "none"
    /\ NoFields
    /\ NoGenerated

\* removeModelFromSchemaContent(content, tableName)
Remove ==
    /\ phase = "input"
    /\ result' = removeModelFromSchemaContent(content, tableName)
    /\ phase' = "removed"
    /\ UNCHANGED << content, tableName, inserted, destroyVars, fieldVars, genVars >>

\* removeModelFromSchemaContent(insertBlock(content, block), tableName) for a
\* content that does not have the table
InsertThenRemove ==
    /\ phase = "input"
    /\ ~existsPattern(content, tableName)
    /\ \E block \in Blocks(tableName) :
         /\ inserted' = insertBlock(content, block)
         /\ result' = removeModelFromSchemaContent(inserted', tableName)
    /\ phase' = "roundtrip"
    /\ UNCHANGED << content, tableName, destroyVars, fieldVars, genVars >>

Next == Remove \/ InsertThenRemove

Spec == Init /\ [][Next]_vars

\* ------------------------------------------------------ the destroy command
\* Largest number of pieces the schema file of the destroy checks is put
\* together from.
MaxSchemaChunks == 3

\* The pieces of those schema files: the block of posts as the generator
\* writes it, the block of users, a definition of posts that is not
\* exported, a blank line.
PostsBlock == Join(<< HeaderPosts, TextLine, CloseLine >>)
SchemaChunks == { PostsBlock, OneLineUsers, BarePosts, BlankLine }

ModelNames == { PostName, << "D", "b" >>, << "1", "p" >>, << >> }

Fs ==
    [ dirs |-> dirs, schemaExists |-> schemaExists, schemaText |-> schemaText,
      actionsFiles |-> actionsFiles ]

InitDestroy ==
    /\ content = << >> /\ tableName = PostsTable /\ phase = "input"
    /\ inserted = << >> /\ result = << >>
    /\ dirs \in SUBSET { ScaffoldPath(createModelContext(PostName)),
                         ApiPath(createModelContext(PostName)) }
    /\ schemaExists \in BOOLEAN
    /\ schemaText \in (IF schemaExists
                       THEN ContentsOf(SchemaChunks, MaxSchemaChunks)
                       ELSE { << >> })
    /\ pc = "idle" /\ run = NoRun /\ ops = << >> /\ answer = "none"
    /\ outcome = "none"
    /\ before = NoFs /\ prev = NoPrev
    /\ actionsFiles = NoFiles /\ ret = "none"
    /\ NoFields
    /\ NoGenerated

BasePath(type, ctx) == IF type = "API" THEN ApiPath(ctx) ELSE ScaffoldPath(ctx)

\* Finish on the schema file as it was when the command started.
FinishFromSnapshot ==
    LET ctx == createModelContext(run'.name)
        d == deleteDirectory(dirs, BasePath(run'.type, ctx), run'.dryRun)
        r == removeFromSchema(before'.schemaExists, before'.schemaText,
                              ctx.tableName, run'.dryRun)
    IN  /\ dirs' = d.dirs
        /\ actionsFiles' = [ p \in ActionsDirs |->
                                IF p \in d.dirs THEN actionsFiles[p]
                                ELSE NoFile ]
        /\ schemaExists' = r.exists
        /\ schemaText' = r.text
        /\ ops' = ops \o d.ops \o r.ops
        /\ outcome' = "completed"
        /\ pc' = "done"

\* deleteDirectory(basePath, options); removeFromSchema(ctx.tableName,
\* options): the end of destroy, after the prompt if there was one
Finish ==
    LET ctx == createModelContext(run'.name)
        d == deleteDirectory(dirs, BasePath(run'.type, ctx), run'.dryRun)
        r == removeFromSchema(schemaExists, schemaText, ctx.tableName,
                              run'.dryRun)
    IN  /\ dirs' = d.dirs
        /\ actionsFiles' = [ p \in ActionsDirs |->
                                IF p \in d.dirs THEN actionsFiles[p]
                                ELSE NoFile ]
        /\ schemaExists' = r.exists
        /\ schemaText' = r.text
        /\ ops' = ops \o d.ops \o r.ops
        /\ outcome' = "completed"
        /\ pc' = "done"

\* destroy(name, type, buildPath, options) up to its end or to the await of
\* the prompt
destroy(name, type, force, dryRun) ==
    /\ pc = "idle"
    /\ run' = [ name |-> name, type |-> type, force |-> force,
                dryRun |-> dryRun ]
    /\ before' = Fs
    /\ UNCHANGED << engineVars, fieldVars, genVars, answer, prev, ret >>
    /\ IF validateModelName(name) # "ok"
       THEN /\ outcome' = validateModelName(name)
            /\ pc' = "done"
            /\ UNCHANGED << dirs, schemaExists, schemaText, actionsFiles, ops >>
       ELSE IF ~dryRun /\ ~force
               /\ fileExists(dirs, BasePath(type, createModelContext(name)))
       THEN /\ pc' = "confirm"
            /\ ops' = Append(ops, "confirm")
            /\ UNCHANGED << dirs, schemaExists, schemaText, actionsFiles,
                            outcome >>
       ELSE Finish

destroyScaffold ==
    \E name \in ModelNames, force \in BOOLEAN, dryRun \in BOOLEAN :
        destroy(name, "scaffold", force, dryRun)

destroyResource ==
    \E name \in ModelNames, force \in BOOLEAN, dryRun \in BOOLEAN :
        destroy(name, "resource", force, dryRun)

destroyApi ==
    \E name \in ModelNames, force \in BOOLEAN, dryRun \in BOOLEAN :
        destroy(name, "API", force, dryRun)

\* Confirmed without the isCancel test: the cancel symbol is truthy.
ConfirmedWithoutIsCancel ==
    /\ pc = "confirm"
    /\ UNCHANGED << engineVars, fieldVars, genVars, run, before, prev, ret >>
    /\ \E confirmed \in { "true", "false", "cancel" } :
         /\ answer' = confirmed
         /\ IF confirmed = "false"
            THEN /\ outcome' = "aborted"
                 /\ pc' = "done"
                 /\ UNCHANGED << dirs, schemaExists, schemaText, actionsFiles, ops >>
            ELSE Finish

\* The prompt is answered: true, false, or the cancel symbol.
Confirmed ==
    /\ pc = "confirm"
    /\ UNCHANGED << engineVars, fieldVars, genVars, run, before, prev, ret >>
    /\ \E confirmed \in { "true", "false", "cancel" } :
         /\ answer' = confirmed
         /\ IF confirmed = "cancel" \/ confirmed = "false"
            THEN /\ outcome' = "aborted"
                 /\ pc' = "done"
                 /\ UNCHANGED << dirs, schemaExists, schemaText, actionsFiles, ops >>
            ELSE Finish

\* The command is over; the next one starts from the file system as it is.
NextCommand ==
    /\ pc = "done"
    /\ pc' = "idle"
    /\ prev' = IF /\ outcome = "completed"
                  /\ ~run.dryRun
                  /\ BasePath(run.type, createModelContext(run.name)) \notin dirs
                  /\ ~modelExistsInSchema(schemaExists, schemaText,
                                          createModelContext(run.name).tableName)
               THEN [ name |-> run.name, type |-> run.type,
                      removed |-> "writeFileSync" \in Range(ops) ]
               ELSE NoPrev
    /\ run' = NoRun /\ ops' = << >> /\ answer' = "none" /\ outcome' = "none"
    /\ before' = NoFs /\ ret' = "none"
    /\ UNCHANGED << engineVars, fieldVars, genVars, dirs, schemaExists, schemaText, actionsFiles >>

NextDestroy ==
    destroyScaffold \/ destroyResource \/ destroyApi \/ Confirmed \/ NextCommand

SpecDestroy == InitDestroy /\ [][NextDestroy]_vars

\* ------------------------------------------------ edits during the prompt
MaxEditChunks == 2

\* the schema files that a program other than destroy saves
EditedSchemas == ContentsOf({ PostsBlock, OneLineUsers }, MaxEditChunks)

InitConcurrent ==
    /\ content = << >> /\ tableName = PostsTable /\ phase = "input"
    /\ inserted = << >> /\ result = << >>
    /\ dirs \in SUBSET { ScaffoldPath(createModelContext(PostName)),
                         ApiPath(createModelContext(PostName)) }
    /\ schemaExists \in BOOLEAN
    /\ schemaText \in (IF schemaExists THEN EditedSchemas ELSE { << >> })
    /\ pc = "idle" /\ run = NoRun /\ ops = << >> /\ answer = "none"
    /\ outcome = "none"
    /\ before = NoFs /\ prev = NoPrev
    /\ actionsFiles = NoFiles /\ ret = "none"
    /\ NoFields
    /\ NoGenerated

\* While destroy waits for the answer to the prompt, another program saves
\* the schema file.
ExternalEdit ==
    /\ pc = "confirm"
    /\ \E edited \in EditedSchemas :
         /\ edited # schemaText
         /\ schemaText' = edited
    /\ schemaExists' = TRUE
    /\ UNCHANGED << engineVars, fieldVars, genVars, dirs, pc, run, ops, answer,
                    outcome, before, prev, actionsFiles, ret >>

NextConcurrent == NextDestroy \/ ExternalEdit

SpecConcurrent == InitConcurrent /\ [][NextConcurrent]_vars

\* ------------------------------------------- the generate actions command
\* what generateActionsContent(ctx) returns, and an actions.ts that was
\* edited by hand
generateActionsContent(ctx) == << "use server" >> \o ctx.kebabPlural
EditedActions == << "use server", "edited" >>

\* the names the generate command is given: those of destroy and one with a
\* character that is no letter and no digit after the first
GenerateNames == ModelNames \cup { << "p", "-" >> }

\* The file system before the commands: the model directories, an actions.ts
\* in those that exist, the schema file.
InitCommands ==
    /\ content = << >> /\ tableName = PostsTable /\ phase = "input"
    /\ inserted = << >> /\ result = << >>
    /\ dirs \in SUBSET { ScaffoldPath(createModelContext(PostName)),
                         ApiPath(createModelContext(PostName)) }
    /\ actionsFiles \in
         [ ActionsDirs ->
             { NoFile,
               [ exists |-> TRUE, text |-> EditedActions ],
               [ exists |-> TRUE,
                 text |-> generateActionsContent(createModelContext(PostName)) ] } ]
    /\ \A p \in ActionsDirs : actionsFiles[p].exists => p \in dirs
    /\ schemaExists \in BOOLEAN
    /\ schemaText \in (IF schemaExists THEN { << >>, PostsBlock } ELSE { << >> })
    /\ pc = "idle" /\ run = NoRun /\ ops = << >> /\ answer = "none"
    /\ outcome = "none"
    /\ before = NoFs /\ prev = NoPrev
    /\ ret = "none"
    /\ NoFields
    /\ NoGenerated

\* generateActions(name, options): validateModelName, then writeFile of
\* app/<kebabPlural>/actions.ts, which makes the directory when it writes
generateActions(name, force, dryRun) ==
    /\ pc = "idle"
    /\ run' = [ name |-> name, type |-> "actions", force |-> force,
                dryRun |-> dryRun ]
    /\ before' = Fs
    /\ pc' = "done"
    /\ UNCHANGED << engineVars, fieldVars, genVars, answer, prev, schemaExists, schemaText >>
    /\ IF validateModelName(name) # "ok"
       THEN /\ outcome' = validateModelName(name)
            /\ UNCHANGED << dirs, actionsFiles, ops, ret >>
       ELSE LET ctx == createModelContext(name)
                dir == ScaffoldPath(ctx)
                old == actionsFiles[dir]
                w == writeFile(old.exists, old.text,
                               generateActionsContent(ctx), force, dryRun)
                wrote == "writeFileSync" \in Range(w.ops)
            IN  /\ actionsFiles' =
                     [ actionsFiles EXCEPT
                         ![dir] = [ exists |-> w.exists, text |-> w.text ] ]
                /\ dirs' = IF wrote THEN dirs \cup { dir } ELSE dirs
                /\ ops' = ops
                          \o (IF wrote /\ dir \notin dirs
                              THEN << "mkdirSync" >> ELSE << >>)
                          \o w.ops
                /\ ret' = IF w.ret THEN "true" ELSE "false"
                /\ outcome' = "completed"

generateActionsCommand ==
    \E name \in GenerateNames, force \in BOOLEAN, dryRun \in BOOLEAN :
        generateActions(name, force, dryRun)

NextCommands == NextDestroy \/ generateActionsCommand

SpecCommands == InitCommands /\ [][NextCommands]_vars

\* ------------------------------------------------------- parsing of fields
\* Largest number of segments of a field definition, and largest number of
\* field definitions of a list.
MaxSegments == 3
MaxFields == 2

\* The segments field definitions are put together from: names that are
\* valid, not camelCase or reserved, types, modifiers, lists of enum
\* values, with and without the nullable mark.
Segments ==
    { << >>, << "a" >>, << "B", "y" >>, << "b", "Y" >>,
      << "i", "n", "t" >>, << "e", "n", "u", "m" >>,
      << "r", "e", "f", "e", "r", "e", "n", "c", "e", "s" >>,
      << "r", "e", "f", "e", "r", "e", "n", "c", "e", "s", "1" >>,
      << "u", "n", "i", "q", "u", "e" >>, << "1" >>,
      << "a", ",", "b" >>, << "a", ",", "a" >>, << "a", "," >>,
      << "?" >>, << "a", "?" >>, << "b", "Y", "?" >>,
      << "i", "n", "t", "?" >>, << "e", "n", "u", "m", "?" >>,
      << "r", "e", "f", "e", "r", "e", "n", "c", "e", "s", "?" >> }

\* parts.join(sep)
RECURSIVE JoinWith(_, _)
JoinWith(parts, sep) ==
    IF Len(parts) = 0 THEN << >>
    ELSE IF Len(parts) = 1 THEN parts[1]
    ELSE parts[1] \o << sep >> \o JoinWith(Tail(parts), sep)

FieldDefinitions(n) ==
    { JoinWith(segs, ":") : segs \in SeqsUpTo(Segments, n) \ { << >> } }

\* the field definitions of the lists with several of them
ListDefinitions ==
    { << "a" >>, << "b", ":", "i", "n", "t", "?" >>,
      << "c", ":", "e", "n", "u", "m", ":", "a", ",", "b" >>,
      << "B", "y" >>,
      << "d", ":", "r", "e", "f", "e", "r", "e", "n", "c", "e", "s", ":", "a" >> }

InitFields ==
    /\ content = << >> /\ tableName = PostsTable /\ phase = "input"
    /\ inserted = << >> /\ result = << >>
    /\ dirs = {} /\ schemaExists = FALSE /\ schemaText = << >>
    /\ pc = "idle" /\ run = NoRun /\ ops = << >> /\ answer = "none"
    /\ outcome = "none"
    /\ before = NoFs /\ prev = NoPrev
    /\ actionsFiles = NoFiles /\ ret = "none"
    /\ fields \in { << f >> : f \in FieldDefinitions(MaxSegments) }
                   \cup SeqsUpTo(ListDefinitions, MaxFields)
    /\ parsed = NotParsed
    /\ variant = << >> /\ parsedVariant = NotParsed
    /\ fieldPhase = "input"
    /\ NoGenerated

\* parseFields(fields)
Parse ==
    /\ fieldPhase = "input"
    /\ parsed' = parseFields(fields)
    /\ fieldPhase' = "parsed"
    /\ UNCHANGED << engineVars, destroyVars, genVars, fields, variant, parsedVariant >>

\* parseFields of the field definition with the nullable mark moved from
\* the name segment to the type segment
ParseMoved ==
    /\ fieldPhase = "parsed"
    /\ Len(fields) = 1
    /\ LET parts == SplitOn(fields[1], ":")
       IN  /\ Len(parts) >= 2
           /\ endsWith(parts[1], "?")
           /\ parts[2] # << >>
           /\ ~endsWith(parts[2], "?")
           /\ variant' = << JoinWith([ parts EXCEPT
                                         ![1] = StripNullable(@),
                                         ![2] = Append(@, "?") ], ":") >>
    /\ parsedVariant' = parseFields(variant')
    /\ fieldPhase' = "moved"
    /\ UNCHANGED << engineVars, destroyVars, genVars, fields, parsed >>

\* parseFields of the field definition without one of its unique segments
ParseWithoutUnique ==
    /\ fieldPhase = "parsed"
    /\ Len(fields) = 1
    /\ LET parts == SplitOn(fields[1], ":")
       IN  \E k \in 2..Len(parts) :
             /\ parts[k] = UniqueModifier
             /\ variant' = << JoinWith(SubSeq(parts, 1, k - 1)
                                       \o SubSeq(parts, k + 1, Len(parts)),
                                       ":") >>
    /\ parsedVariant' = parseFields(variant')
    /\ fieldPhase' = "withoutUnique"
    /\ UNCHANGED << engineVars, destroyVars, genVars, fields, parsed >>

NextFields == Parse \/ ParseMoved \/ ParseWithoutUnique

SpecFields == InitFields /\ [][NextFields]_vars

\* ------------------------------------------------- columns and imports
MaxGenFields == 2

\* the field definitions of the generated models
GenDefinitions ==
    { << "a", ":", "b", "o", "o", "l", "e", "a", "n" >>,
      << "a", ":", "b", "o", "o", "l" >>,
      << "a", ":", "r", "e", "f", "e", "r", "e", "n", "c", "e", "s", ":", "u", "s", "e", "r" >>,
      << "a", ":", "e", "n", "u", "m", ":", "a", ",", "b" >>,
      << "a", ":", "s", "t", "r", "i", "n", "g" >>,
      << "a", ":", "i", "n", "t", "e", "g", "e", "r" >>,
      << "a", ":", "d", "a", "t", "e", "t", "i", "m", "e" >>,
      << "a", ":", "u", "n", "i", "q", "u", "e" >> }

GenFields == { parseField(d) : d \in GenDefinitions }

InitDrizzle ==
    /\ content = << >> /\ tableName = PostsTable /\ phase = "input"
    /\ inserted = << >> /\ result = << >>
    /\ dirs = {} /\ schemaExists = FALSE /\ schemaText = << >>
    /\ pc = "idle" /\ run = NoRun /\ ops = << >> /\ answer = "none"
    /\ outcome = "none"
    /\ before = NoFs /\ prev = NoPrev
    /\ actionsFiles = NoFiles /\ ret = "none"
    /\ NoFields
    /\ gen \in { [ NoGen EXCEPT !.phase = "input", !.dialect = d,
                                !.options = [ uuid |-> u, noTimestamps |-> n ],
                                !.fields = fs ] :
                  d \in Dialects, u \in BOOLEAN, n \in BOOLEAN,
                  fs \in SeqsUpTo(GenFields, MaxGenFields) }
    /\ imp = NoImp /\ refs = NoRefs /\ named = NoCtx

\* the columns of the model: drizzleType of each field, getIdColumn and
\* getTimestampColumns
ResolveColumns ==
    /\ gen.phase = "input"
    /\ gen' = [ gen EXCEPT
                  !.phase = "columns",
                  !.types = [ k \in 1..Len(gen.fields) |->
                                drizzleType(gen.fields[k], gen.dialect) ],
                  !.idColumn = getIdColumn(gen.dialect, gen.options.uuid),
                  !.timestamps = getTimestampColumns(gen.dialect,
                                                     gen.options.noTimestamps) ]
    /\ UNCHANGED << engineVars, destroyVars, fieldVars, imp, refs, named >>

\* getRequiredImports(fields, dialect, options)
RequiredImports ==
    /\ gen.phase = "columns"
    /\ gen' = [ gen EXCEPT
                  !.phase = "imports",
                  !.imports = getRequiredImports(gen.fields, gen.dialect,
                                                 gen.options) ]
    /\ UNCHANGED << engineVars, destroyVars, fieldVars, imp, refs, named >>

NextDrizzle == ResolveColumns \/ RequiredImports

SpecDrizzle == InitDrizzle /\ [][NextDrizzle]_vars

\* ---------------------------------------------- the schema files to update
MaxImportChunks == 3

\* The lines of the schema files.
ImportLine ==
    << "import", SP, "{", SP, "sqliteTable", ",", SP, "text", SP, "}", SP,
       "from", SP, "\"drizzle-orm/sqlite-core\"", ";" >>
ImportLineBare ==
    << "import", "{", "integer", ",", "text", ",", "}", "from",
       "'drizzle-orm/sqlite-core'" >>
ImportLines ==
    << "import", SP, "{", NL, SP, "pgTable", ",", NL, SP, "pgTable", SP, "as",
       SP, "id", NL, "}", SP, "from", SP, "\"drizzle-orm/pg-core\"", ";" >>
ImportSql ==
    << "import", SP, "{", SP, "sql", SP, "}", SP, "from", SP,
       "\"drizzle-orm\"", ";" >>
ImportNothing ==
    << "import", SP, "{", "}", SP, "from", SP, "\"drizzle-orm/mysql-core\"",
       ";" >>

ImportChunks ==
    { ImportLine, ImportLineBare, ImportLines, ImportSql, ImportNothing,
      OneLineUsers }

\* the fields of the models whose imports are added to the schema file
ImportFields ==
    { << >>,
      << parseField(<< "a", ":", "s", "t", "r", "i", "n", "g" >>) >>,
      << parseField(<< "a", ":", "e", "n", "u", "m", ":", "a", ",", "b" >>) >> }

InitImports ==
    /\ content = << >> /\ tableName = PostsTable /\ phase = "input"
    /\ inserted = << >> /\ result = << >>
    /\ dirs = {} /\ schemaExists = FALSE /\ schemaText = << >>
    /\ pc = "idle" /\ run = NoRun /\ ops = << >> /\ answer = "none"
    /\ outcome = "none"
    /\ before = NoFs /\ prev = NoPrev
    /\ actionsFiles = NoFiles /\ ret = "none"
    /\ NoFields
    /\ gen = NoGen
    /\ imp \in { [ NoImp EXCEPT
                     !.phase = "input", !.content = c, !.dialect = d,
                     !.newImports =
                         getRequiredImports(fs, d, NoGen.options) ] :
                  c \in ContentsOf(ImportChunks, MaxImportChunks),
                  d \in Dialects, fs \in ImportFields }
    /\ refs = NoRefs /\ named = NoCtx

\* updateSchemaImports(content, newImports, dialect)
Update ==
    /\ imp.phase = "input"
    /\ imp' = [ imp EXCEPT
                  !.phase = "once",
                  !.once = updateSchemaImports(imp.content, imp.newImports,
                                               imp.dialect) ]
    /\ UNCHANGED << engineVars, destroyVars, fieldVars, gen, refs, named >>

\* updateSchemaImports of what the first call returned, with the same imports
UpdateAgain ==
    /\ imp.phase = "once"
    /\ imp' = [ imp EXCEPT
                  !.phase = "twice",
                  !.twice = updateSchemaImports(imp.once, imp.newImports,
                                                imp.dialect) ]
    /\ UNCHANGED << engineVars, destroyVars, fieldVars, gen, refs, named >>

NextImports == Update \/ UpdateAgain

SpecImports == InitImports /\ [][NextImports]_vars

\* ------------------------------------------------------------ model names
MaxNameLen == 3

\* the characters the model names of the checks are written with
NameChars == { "b", "u", "s", "i", "e", "y", "x", "B" }

Names(n) == { s \in SeqsUpTo(NameChars, n) : validateModelName(s) = "ok" }

InitNames ==
    /\ content = << >> /\ tableName = PostsTable /\ phase = "input"
    /\ inserted = << >> /\ result = << >>
    /\ dirs = {} /\ schemaExists = FALSE /\ schemaText = << >>
    /\ pc = "idle" /\ run = NoRun /\ ops = << >> /\ answer = "none"
    /\ outcome = "none"
    /\ before = NoFs /\ prev = NoPrev
    /\ actionsFiles = NoFiles /\ ret = "none"
    /\ NoFields
    /\ gen = NoGen /\ imp = NoImp /\ refs = NoRefs
    /\ named \in { [ NoCtx EXCEPT !.phase = "input", !.name = s ] :
                  s \in Names(MaxNameLen) }

\* createModelContext(name)
Context ==
    /\ named.phase = "input"
    /\ named' = [ named EXCEPT !.phase = "singular",
                           !.ofName = createModelContext(named.name) ]
    /\ UNCHANGED << engineVars, destroyVars, fieldVars, gen, imp, refs >>

\* createModelContext(pluralize(name))
ContextOfPlural ==
    /\ named.phase = "singular"
    /\ named' = [ named EXCEPT !.phase = "plural",
                           !.ofPlural = createModelContext(pluralize(named.name)) ]
    /\ UNCHANGED << engineVars, destroyVars, fieldVars, gen, imp, refs >>

NextNames == Context \/ ContextOfPlural

SpecNames == InitNames /\ [][NextNames]_vars

\* ------------------------------------------------- validation of references
MaxRefFields == 2
MaxRefChunks == 2

\* the field definitions of a model with references
RefDefinitions ==
    { << "a", ":", "r", "e", "f", "e", "r", "e", "n", "c", "e", "s", ":", "u", "s", "e", "r" >>,
      << "a", ":", "r", "e", "f", "e", "r", "e", "n", "c", "e", "s", ":", "B", "u", "s" >>,
      << "a", ":", "r", "e", "f", "e", "r", "e", "n", "c", "e", "s" >>,
      << "a", ":", "r", "e", "f", "e", "r", "e", "n", "c", "e", "s", ":" >>,
      << "a", ":", "s", "t", "r", "i", "n", "g" >> }

RefFields == { parseField(d) : d \in RefDefinitions }

\* The lines of the schema file, the table names written character by
\* character.
UsersQuoted ==
    << "export", SP, "const", SP, "id", SP, "=", SP, "sqliteTable", "(",
       "\"", "u", "s", "e", "r", "s", "\"", ",", SP, "{", "}", ")", ";" >>
BusesQuoted ==
    << "export", SP, "const", SP, "id", SP, "=", SP, "sqliteTable", "(",
       "\"", "b", "u", "s", "e", "s", "\"", ",", SP, "{", "}", ")", ";" >>
BusQuoted ==
    << "export", SP, "const", SP, "id", SP, "=", SP, "sqliteTable", "(",
       "\"", "b", "u", "s", "\"", ",", SP, "{", "}", ")", ";" >>
UsersSingleQuoted ==
    << "export", SP, "const", SP, "id", SP, "=", SP, "sqliteTable", "(",
       "'", "u", "s", "e", "r", "s", "'", ",", SP, "{", "}", ")", ";" >>

RefChunks == { UsersQuoted, BusesQuoted, BusQuoted, UsersSingleQuoted }

InitReferences ==
    /\ content = << >> /\ tableName = PostsTable /\ phase = "input"
    /\ inserted = << >> /\ result = << >>
    /\ dirs = {}
    /\ schemaExists \in BOOLEAN
    /\ schemaText \in (IF schemaExists
                       THEN ContentsOf(RefChunks, MaxRefChunks)
                       ELSE { << >> })
    /\ pc = "idle" /\ run = NoRun /\ ops = << >> /\ answer = "none"
    /\ outcome = "none"
    /\ actionsFiles = NoFiles /\ ret = "none"
    /\ before = Fs /\ prev = NoPrev
    /\ NoFields
    /\ gen = NoGen /\ imp = NoImp /\ named = NoCtx
    /\ refs \in { [ NoRefs EXCEPT !.phase = "input", !.fields = fs ] :
                   fs \in SeqsUpTo(RefFields, MaxRefFields) }

\* validateReferences(fields)
ValidateReferences ==
    /\ refs.phase = "input"
    /\ LET v == validateReferences(schemaExists, schemaText, refs.fields)
       IN  /\ refs' = [ refs EXCEPT !.phase = "validated",
                                    !.checked = v.checked,
                                    !.warnings = v.warnings,
                                    !.threw = v.threw ]
           /\ ops' = v.ops
    /\ UNCHANGED << engineVars, fieldVars, gen, imp, named, dirs, schemaExists,
                    schemaText, pc, run, answer, outcome, before, prev,
                    actionsFiles, ret >>

NextReferences == ValidateReferences

SpecReferences == InitReferences /\ [][NextReferences]_vars

\* ---------------------------------------------- what the checks compare with
\* The state machine of the engine, stated on the lines ls of a content:
\* the first line that matches the block header, the brace depth from that
\* line on, and the first line at which the block is closed.
Machine(ls, t) ==
    LET n == Len(ls)
        headers == { i \in 1..n : tablePattern(ls[i], t) }
        start == IF headers = {} THEN 0 ELSE Least(headers)
        net == [ j \in 1..n |-> Count(ls[j], "{") - Count(ls[j], "}") ]
        depth[ j \in 0..n ] ==
            IF j = 0 \/ j < start THEN 0 ELSE depth[j - 1] + net[j]
        sawOpen == { j \in 1..n : \E k \in start..j : Count(ls[k], "{") > 0 }
        closes == { j \in 1..n : start # 0 /\ j >= start /\ j \in sawOpen
                                   /\ depth[j] = 0 }
        end == IF closes = {} THEN 0 ELSE Least(closes)
    IN  [ hasHeader |-> start # 0,
          found |-> end # 0,
          startLine |-> start,
          endLine |-> end,
          \* some line of the block has more closing than opening braces
          \* behind it before the block is closed
          negative |-> \E j \in 1..n : /\ start # 0 /\ j >= start
                                        /\ depth[j] < 0
                                        /\ (end = 0 \/ j < end),
          outside |-> IF end = 0 THEN ls
                      ELSE SubSeq(ls, 1, start - 1) \o SubSeq(ls, end + 1, n) ]

NonBlank(ls) == SelectSeq(ls, LAMBDA l : l # BlankLine)

\* s has n newlines in a row somewhere
HasNewlineRun(s, n) ==
    \E i \in 1..Len(s) : \A k \in i..(i + n - 1) : At(s, k) = NL

\* C1: for every content and table name the existence check is true exactly
\* when the removal scan finds a block header and reaches Found.
C1_ExistsIffFound ==
    existsPattern(content, tableName)
        <=> Machine(Split(content), tableName).found

\* C2 as stated: when the scan reaches Found, the result is the content
\* without the lines startLine..endLine and every other line is kept.
C2_OnlyBlockLinesDeleted ==
    LET m == Machine(Split(content), tableName)
    IN  (phase = "removed" /\ m.found) => Split(result) = m.outside

\* C2 amended: when the scan reaches Found, the lines startLine..endLine are
\* deleted and the non-blank lines of the result are the non-blank lines
\* outside that range, in their order; blank lines outside the range can go.
C2_NonBlankOutsideKept ==
    LET m == Machine(Split(content), tableName)
    IN  (phase = "removed" /\ m.found) =>
            NonBlank(Split(result)) = NonBlank(m.outside)

C2_Witness ==
    LET ls == Split(content)
        m == Machine(ls, tableName)
    IN  /\ phase = "removed" /\ m.found
        /\ m.startLine > 1 /\ m.endLine > m.startLine /\ m.endLine < Len(ls)
        /\ \E i \in 1..Len(m.outside) : m.outside[i] = OneLineUsers
        /\ HasNewlineRun(result, 2)

\* C3: when no line matches the block header the content comes back
\* unchanged.
C3_NoHeaderUnchanged ==
    (phase = "removed" /\ ~Machine(Split(content), tableName).hasHeader)
        => result = content

C3_Witness ==
    /\ phase = "removed"
    /\ ~Machine(Split(content), tableName).hasHeader
    /\ existsPattern(content, tableName)
    /\ HasNewlineRun(content, 3)
    /\ result = content

\* C4: when the block of the table has unbalanced braces (more closing than
\* opening braces, or the file ends before the block closes) the content
\* comes back unchanged.
C4_UnbalancedUnchanged ==
    LET m == Machine(Split(content), tableName)
    IN  (phase = "removed" /\ m.hasHeader /\ (m.negative \/ ~m.found))
            => result = content

\* C5: removal after insertion gives the content back, up to the newline
\* collapse, and the newline collapse is idempotent.
C5_RoundTrip ==
    /\ CollapseNewlines(CollapseNewlines(content)) = CollapseNewlines(content)
    /\ phase = "roundtrip" =>
          /\ result = CollapseNewlines(content)
          /\ CollapseNewlines(result) = result

C5_Witness ==
    /\ phase = "roundtrip"
    /\ HasNewlineRun(content, 3)
    /\ result # content
    /\ existsPattern(content, IF tableName = PostsTable THEN UsersTable
                               ELSE PostsTable)

\* the lengths of the maximal runs of newlines of s, in their order
RECURSIVE GapsFrom(_, _)
GapsFrom(s, i) ==
    LET j == Find(s, i, {NL})
        k == SkipWhile(s, j, {NL})
    IN  IF j > Len(s) THEN << >> ELSE << k - j >> \o GapsFrom(s, k)

Gaps(s) == GapsFrom(s, 1)

\* every maximal run of three or more blank lines of ls becomes one blank
\* line, shorter runs stay
RECURSIVE CollapseBlankLines(_, _)
CollapseBlankLines(ls, i) ==
    IF i > Len(ls) THEN << >>
    ELSE IF ls[i] = BlankLine
         THEN LET j == SkipWhile(ls, i, {BlankLine})
              IN  (IF j - i >= 3 THEN << BlankLine >> ELSE SubSeq(ls, i, j - 1))
                  \o CollapseBlankLines(ls, j)
         ELSE << ls[i] >> \o CollapseBlankLines(ls, i + 1)

\* C6 as stated: after a removal every run of three or more blank lines of
\* the remaining lines is one blank line and shorter runs are as they were.
C6_BlankLineRunsCollapsed ==
    LET m == Machine(Split(content), tableName)
    IN  (phase = "removed" /\ m.found) =>
            Split(result) = CollapseBlankLines(m.outside, 1)

\* C6 amended: after a removal every run of three or more newline characters
\* of the remaining text is exactly two newline characters (so two or more
\* blank lines between two lines become one blank line), every shorter run
\* is as it was, and nothing else changes.
C6_NewlineRunsCollapsed ==
    LET m == Machine(Split(content), tableName)
        pre == Join(m.outside)
        g == Gaps(pre)
    IN  (phase = "removed" /\ m.found) =>
            /\ NonBlank(Split(result)) = NonBlank(Split(pre))
            /\ (At(result, 1) = NL) <=> (At(pre, 1) = NL)
            /\ Gaps(result) = [ i \in 1..Len(g) |-> IF g[i] >= 3 THEN 2 ELSE g[i] ]

C6_Witness ==
    LET m == Machine(Split(content), tableName)
        g == Gaps(Join(m.outside))
    IN  /\ phase = "removed" /\ m.found
        /\ \E i \in 1..Len(g) : g[i] >= 3
        /\ Len(NonBlank(m.outside)) >= 2
        /\ At(result, 1) # NL

\* ---------------------------------------------------- the destroy checks
\* the table of the model the command is about
RunTable == createModelContext(run.name).tableName

RunPath == BasePath(run.type, createModelContext(run.name))

Valid == run.type # "none" /\ validateModelName(run.name) = "ok"

TableBefore(t) ==
    modelExistsInSchema(before.schemaExists, before.schemaText, t)

TableNow(t) == modelExistsInSchema(schemaExists, schemaText, t)

\* C7: after a destroy that ran to its end for a model whose table is in the
\* schema file, the schema file has no definition of that table any more and
\* has every other table definition it had.
C7_TableGoneOthersKept ==
    (pc = "done" /\ outcome = "completed" /\ ~run.dryRun
        /\ TableBefore(RunTable)) =>
        /\ ~TableNow(RunTable)
        /\ \A t \in TableNames \ { RunTable } : TableBefore(t) => TableNow(t)

\* C8: a destroy for a model whose table is not in the schema file does not
\* write the schema file and throws nothing, and a destroy that follows a
\* destroy of the same model which left neither its directory nor its table
\* changes nothing.
C8_AbsentTableNoWrite ==
    (pc = "done" /\ Valid) =>
        /\ ~TableBefore(RunTable) =>
              /\ "writeFileSync" \notin Range(ops)
              /\ schemaExists = before.schemaExists
              /\ schemaText = before.schemaText
              /\ outcome \in { "completed", "aborted" }
        /\ (prev.name = run.name /\ prev.type = run.type) =>
              /\ Fs = before
              /\ outcome = "completed"
              /\ "rmSync" \notin Range(ops)
              /\ "writeFileSync" \notin Range(ops)

C8_Witness ==
    /\ pc = "done" /\ Valid
    /\ prev.name = run.name /\ prev.type = run.type /\ prev.removed
    /\ ~run.force /\ ~run.dryRun
    /\ TableNow(UsersTable)
    /\ "readFileSync" \in Range(ops)

\* C9: without force and without dry-run nothing is deleted and the schema
\* file is not written unless the prompt was shown and answered yes before.
C9_NoChangeWithoutYes ==
    (Valid /\ ~run.force /\ ~run.dryRun
        /\ ("rmSync" \in Range(ops) \/ "writeFileSync" \in Range(ops)
            \/ Fs # before)) =>
        /\ Len(ops) > 0 /\ ops[1] = "confirm"
        /\ answer = "true"

\* C10: when the prompt is answered no or cancelled, destroy stops: the
\* directory is not deleted and the schema file is neither read nor written.
C10_DeclineStops ==
    (pc = "done" /\ answer \in { "false", "cancel" }) =>
        /\ outcome = "aborted"
        /\ Fs = before
        /\ ops = << "confirm" >>

C10_Witness ==
    /\ pc = "done" /\ answer = "cancel" /\ outcome = "aborted"
    /\ RunPath \in dirs
    /\ TableNow(RunTable)
    /\ run.type = "API"

\* C11: a destroy in dry-run mode changes nothing in the file system,
\* whatever the model and the state before: no directory is removed, the
\* schema file is not written, and no prompt is shown.
C11_DryRunChangesNothing ==
    (run.type # "none" /\ run.dryRun) =>
        /\ pc # "confirm"
        /\ Fs = before
        /\ "confirm" \notin Range(ops)
        /\ "rmSync" \notin Range(ops)
        /\ "writeFileSync" \notin Range(ops)

C11_Witness ==
    /\ pc = "done" /\ run.dryRun /\ ~run.force /\ outcome = "completed"
    /\ RunPath \in before.dirs
    /\ TableBefore(RunTable)
    /\ Machine(Split(before.schemaText), RunTable).found

\* ------------------------------------------ the checks of names and writes
\* The words of the statements about model names: a name is invalid when it
\* is empty or does not match ^[A-Za-z][A-Za-z0-9]*$, reserved when it is
\* one of the five reserved words in any letter case.
InvalidName(name) ==
    \/ name = << >>
    \/ name[1] \notin Letters
    \/ \E i \in 1..Len(name) : name[i] \notin Letters \cup Digits

ReservedName(name) ==
    \E w \in ReservedModelNames :
        /\ Len(w) = Len(name)
        /\ \A i \in 1..Len(w) : name[i] \in { w[i] } \cup
               { UpperCase[k] : k \in { j \in 1..Len(LowerCase) :
                                           LowerCase[j] = w[i] } }

\* C12: a destroy or generate command given an invalid or a reserved model
\* name throws before any prompt, directory deletion, file read or file
\* write.
C12_BadNameThrowsFirst ==
    (run.type # "none" /\ (InvalidName(run.name) \/ ReservedName(run.name))) =>
        /\ pc = "done"
        /\ outcome \in { "required", "invalid", "reserved" }
        /\ ops = << >>
        /\ answer = "none"
        /\ ret = "none"
        /\ Fs = before

C12_Witness ==
    /\ pc = "done" /\ run.type = "actions" /\ run.force /\ ~run.dryRun
    /\ run.name = << "D", "b" >>
    /\ outcome = "reserved"
    /\ prev.type = "API"

\* C13: writeFile writes only when dry-run is off and the file does not
\* exist or force is set; for a file that exists, without force, it writes
\* nothing, leaves the file as it is and returns false; in every other case
\* it returns true.
C13_WriteFileGuard ==
    (pc = "done" /\ run.type = "actions" /\ outcome = "completed") =>
        LET old == before.actionsFiles[RunPath]
            new == actionsFiles[RunPath]
            wrote == "writeFileSync" \in Range(ops)
        IN  /\ wrote <=> (~run.dryRun /\ (~old.exists \/ run.force))
            /\ ~wrote => new = old
            /\ wrote => new = [ exists |-> TRUE,
                                text |-> generateActionsContent(
                                            createModelContext(run.name)) ]
            /\ ret = IF old.exists /\ ~run.force THEN "false" ELSE "true"

C13_Witness ==
    /\ pc = "done" /\ run.type = "actions" /\ outcome = "completed"
    /\ ~run.force /\ ~run.dryRun
    /\ actionsFiles[RunPath].text =
          generateActionsContent(createModelContext(run.name))
    /\ before.actionsFiles[RunPath].exists
    /\ ret = "false"

\* ------------------------------------------------- the checks of the fields
Parsed == fieldPhase \in { "parsed", "moved", "withoutUnique" }
Accepted == parsed.error = "none"

\* The words of the statements about a field definition: its segments, its
\* name segment and its type segment without the nullable mark, "string"
\* for a type segment that is not given.
Segs(fieldDef) == SplitOn(fieldDef, ":")
NameSeg(fieldDef) == StripNullable(Segs(fieldDef)[1])
TypeSeg(fieldDef) ==
    IF Len(Segs(fieldDef)) < 2 \/ Segs(fieldDef)[2] = << >> THEN StringType
    ELSE StripNullable(Segs(fieldDef)[2])

\* C14 as stated: parseFields returns as many Fields as it was given field
\* definitions, the i-th from the i-th, each with the name segment as name
\* and the type segment as type.
C14_NameAndTypeOfSegments ==
    (Parsed /\ Accepted) =>
        /\ Len(parsed.fields) = Len(fields)
        /\ \A i \in 1..Len(fields) :
              /\ parsed.fields[i].name = NameSeg(fields[i])
              /\ parsed.fields[i].type = TypeSeg(fields[i])

\* C14: parseFields returns as many Fields as it was given field
\* definitions, the i-th from the i-th, each with the name segment as name
\* and the type segment as type, except that the type of a references
\* field is integer.
C14_NameAndTypeExceptReferences ==
    (Parsed /\ Accepted) =>
        /\ Len(parsed.fields) = Len(fields)
        /\ \A i \in 1..Len(fields) :
              /\ parsed.fields[i].name = NameSeg(fields[i])
              /\ parsed.fields[i].type =
                    IF TypeSeg(fields[i]) = ReferencesType THEN IntegerType
                    ELSE TypeSeg(fields[i])
              /\ parsed.fields[i].isReference
                    <=> TypeSeg(fields[i]) = ReferencesType

C14_Witness ==
    /\ Parsed /\ Accepted /\ Len(fields) = 2
    /\ parsed.fields[1].name # parsed.fields[2].name
    /\ parsed.fields[1].isReference
    /\ parsed.fields[2].type = << "i", "n", "t" >>

\* C15: every field definition that is accepted has a type segment that is
\* references, enum or one of the fourteen primitive types, and no Field
\* that parseFields returns has a type outside the primitive types and enum.
C15_TypeInVocabulary ==
    (Parsed /\ Accepted) =>
        \A i \in 1..Len(fields) :
            /\ TypeSeg(fields[i])
                  \in VALID_FIELD_TYPES \cup { EnumType, ReferencesType }
            /\ parsed.fields[i].type \in VALID_FIELD_TYPES \cup { EnumType }

\* C16: every Field that parseFields returns is one of primitive, enum and
\* reference: never enum and reference at once, with enum values, and not
\* an empty list of them, exactly when it is an enum, and with a reference
\* target that is a name exactly when it is a reference.
C16_ExactlyOneKind ==
    (Parsed /\ Accepted) =>
        \A i \in 1..Len(fields) :
            LET f == parsed.fields[i]
            IN  /\ ~(f.isEnum /\ f.isReference)
                /\ f.enumValues.defined <=> f.isEnum
                /\ f.isEnum => f.enumValues.value # << >>
                /\ f.referenceTo.defined <=> f.isReference
                /\ f.isReference => f.referenceTo.value # << >>

\* C17: for an enum field definition with a name that passes the name
\* checks: no third segment or an empty one is rejected for the missing
\* values; a value that does not match ^[a-zA-Z][a-zA-Z0-9_-]*$ is rejected
\* for that value; two equal values are rejected, as duplicate when the
\* values are valid; when it is accepted the enum values are the third
\* segment split at the commas, in order, not empty and all different.
C17_EnumValidation ==
    (Parsed /\ Len(fields) = 1 /\ NameError(NameSeg(fields[1])) = "ok"
        /\ Len(Segs(fields[1])) >= 2 /\ TypeSeg(fields[1]) = EnumType) =>
        LET segs == Segs(fields[1])
            third == IF Len(segs) >= 3 THEN segs[3] ELSE << >>
            values == SplitOn(third, ",")
            invalid == \E i \in 1..Len(values) : ~EnumValueName(values[i])
            equal == \E i, j \in 1..Len(values) :
                        i # j /\ values[i] = values[j]
        IN  /\ third = << >> => parsed.error = "requiresValues"
            /\ (third # << >> /\ invalid) =>
                  parsed.error \in { "emptyValue", "invalidValue" }
            /\ equal => ~Accepted
            /\ (equal /\ ~invalid) => parsed.error = "duplicate"
            /\ Accepted =>
                  /\ parsed.fields[1].isEnum
                  /\ parsed.fields[1].enumValues = Defined(values)
                  /\ Len(values) > 0
                  /\ ~equal /\ ~invalid

C17_Witness ==
    /\ Parsed /\ Accepted /\ Len(fields) = 1
    /\ parsed.fields[1].isEnum
    /\ Len(parsed.fields[1].enumValues.value) = 2
    /\ parsed.fields[1].nullable

\* C18: validateFieldDefinition applies its rules in order: a name that
\* does not match ^[a-z][a-zA-Z0-9]*$ is rejected for its name; if not, a
\* name that is a reserved SQL word in any letter case is rejected as
\* reserved; only then come the rules of the type and of the enum values.
C18_RulesInOrder ==
    (Parsed /\ Len(fields) = 1) =>
        LET name == NameSeg(fields[1])
        IN  IF ~CamelCaseName(name)
            THEN parsed.error \in { "required", "invalidName" }
            ELSE IF toLowerCase(name) \in SQL_RESERVED_WORDS
            THEN parsed.error = "reserved"
            ELSE parsed.error \notin { "required", "invalidName", "reserved" }

C18_Witness ==
    /\ Parsed /\ Len(fields) = 1
    /\ parsed.error = "invalidName"
    /\ toLowerCase(NameSeg(fields[1])) \in SQL_RESERVED_WORDS
    /\ TypeError(TypeSeg(fields[1])) # "ok"

\* the types of the statements: the primitive types, enum and references
ValidTypes == VALID_FIELD_TYPES \cup { EnumType, ReferencesType }

\* C19: for a valid name and a valid type, the nullable mark after the name
\* segment and after the type segment give the same result, a Field with
\* nullable true and the mark taken off the name and the type; a Field is
\* nullable exactly when the name segment or the type segment of its field
\* definition ends with the mark.
C19_NullableEitherPlace ==
    /\ (fieldPhase = "moved" /\ NameError(NameSeg(fields[1])) = "ok"
          /\ TypeSeg(fields[1]) \in ValidTypes) =>
          /\ parsedVariant = parsed
          /\ Accepted =>
                /\ parsed.fields[1].nullable
                /\ parsed.fields[1].name = NameSeg(fields[1])
                /\ ~endsWith(parsed.fields[1].name, "?")
                /\ ~endsWith(parsed.fields[1].type, "?")
    /\ (Parsed /\ Accepted) =>
          \A i \in 1..Len(fields) :
              parsed.fields[i].nullable
                  <=> \/ endsWith(Segs(fields[i])[1], "?")
                      \/ /\ Len(Segs(fields[i])) >= 2
                         /\ endsWith(Segs(fields[i])[2], "?")

C19_Witness ==
    /\ fieldPhase = "moved" /\ Accepted
    /\ parsed.fields[1].isEnum
    /\ parsed.fields[1].nullable
    /\ variant # fields

\* C20: the unique flag of a Field is true exactly when a segment of its
\* field definition is unique, and the name, the type, the enum values and
\* the reference target are those of the field definition without that
\* segment.
C20_UniqueChangesNothingElse ==
    (Parsed /\ Accepted /\ Len(fields) = 1) =>
        /\ parsed.fields[1].unique
              <=> \E k \in 1..Len(Segs(fields[1])) :
                     Segs(fields[1])[k] = UniqueModifier
        /\ fieldPhase = "withoutUnique" =>
              /\ parsedVariant.error = "none"
              /\ parsedVariant.fields[1].name = parsed.fields[1].name
              /\ parsedVariant.fields[1].type = parsed.fields[1].type
              /\ parsedVariant.fields[1].enumValues
                    = parsed.fields[1].enumValues
              /\ parsedVariant.fields[1].referenceTo
                    = parsed.fields[1].referenceTo
\* ------------------------------------------------------------ C21 .. C24
BooleanTypes == { << "b", "o", "o", "l", "e", "a", "n" >>, << "b", "o", "o", "l" >> }

\* the names of the column functions that a column definition calls
ColumnSymbols(def) == { def[i - 1] : i \in { j \in 2..Len(def) : def[j] = "(" } }

\* the fields of the model whose columns were made
GenIndex == IF gen.phase \in { "columns", "imports" } THEN 1..Len(gen.fields) ELSE {}

IntegerLike == { "integer", "int", "serial", "bigint" }
StringLike == { "text", "varchar", "uuid" }
KindOf(symbol) ==
    IF symbol \in IntegerLike THEN "integer"
    ELSE IF symbol \in StringLike THEN "string"
    ELSE "other"

\* C22: for every dialect and both id modes a reference field resolves to
\* the kind of column type that the id column has: the integer-like type by
\* default, the string or uuid type of getIdColumn in uuid mode.
C22_ReferenceTypeOfId ==
    \A k \in GenIndex :
      gen.fields[k].isReference =>
        /\ { KindOf(x) : x \in ColumnSymbols(gen.idColumn) }
             = { KindOf(BaseType(gen.types[k])) }
        /\ KindOf(BaseType(gen.types[k]))
             = IF gen.options.uuid THEN "string" ELSE "integer"

\* C23: the result of getRequiredImports has the table function, the column
\* function of the id column, the column function of the timestamp columns
\* when they are enabled, and the base type of every field that is no enum.
C23_ImportsComplete ==
    gen.phase = "imports" =>
      /\ getTableFunction(gen.dialect) \in Range(gen.imports)
      /\ ColumnSymbols(gen.idColumn) \subseteq Range(gen.imports)
      /\ ColumnSymbols(gen.timestamps) \subseteq Range(gen.imports)
      /\ \A k \in GenIndex :
            ~gen.fields[k].isEnum =>
              BaseType(gen.types[k]) \in Range(gen.imports)

HasEnums == \E k \in 1..Len(gen.fields) : gen.fields[k].isEnum
WithoutEnums == SelectSeq(gen.fields, LAMBDA f : ~f.isEnum)

\* C24: the enum fields add nothing in the pass over the fields; with an
\* enum field the result has pgEnum on postgresql, mysqlEnum on mysql and
\* text on sqlite, and without one it has neither pgEnum nor mysqlEnum.
C24_EnumImports ==
    gen.phase = "imports" =>
      LET plain == Range(getRequiredImports(WithoutEnums, gen.dialect,
                                            gen.options))
          enum == IF gen.dialect = "postgresql" THEN "pgEnum"
                  ELSE IF gen.dialect = "mysql" THEN "mysqlEnum"
                  ELSE "text"
      IN  /\ HasEnums => Range(gen.imports) = plain \cup { enum }
          /\ ~HasEnums => /\ Range(gen.imports) = plain
                          /\ "pgEnum" \notin Range(gen.imports)
                          /\ "mysqlEnum" \notin Range(gen.imports)

C24_Witness ==
    /\ gen.phase = "imports" /\ gen.dialect = "postgresql"
    /\ Len(gen.fields) = 2
    /\ gen.fields[1].isEnum /\ ~gen.fields[2].isEnum
    /\ "pgEnum" \in Range(gen.imports)
    /\ "text" \notin Range(gen.imports)

\* ------------------------------------------------------------ C25 .. C26
\* the imports of the import line before and after the update
Existing == extractImportsFromSchema(imp.content)
Given == [ k \in 1..Len(imp.newImports) |-> << imp.newImports[k] >> ]
Merged == extractImportsFromSchema(imp.once)

\* position of the first occurrence of x in the list
IndexOf(list, x) == Least({ k \in 1..Len(list) : list[k] = x })

\* C25: the merged imports are the union of the existing and the new ones
\* without duplicates, the existing ones first in their order, then the new
\* ones in the order given; a second update with the same imports changes
\* nothing.
C25_MergeIsOrderedUnion ==
    /\ imp.phase \in { "once", "twice" } =>
         LET existing == Existing
             given == Given
             merged == Merged
         IN  /\ Cardinality(Range(merged)) = Len(merged)
             /\ Range(merged) = Range(existing) \cup Range(given)
             /\ \A x \in Range(existing), y \in Range(merged) :
                  \/ IndexOf(merged, x) <= IndexOf(merged, y)
                  \/ /\ y \in Range(existing)
                     /\ IndexOf(existing, y) < IndexOf(existing, x)
             /\ \A x, y \in Range(given) \ Range(existing) :
                  IndexOf(given, x) < IndexOf(given, y)
                    => IndexOf(merged, x) < IndexOf(merged, y)
    /\ imp.phase = "twice" => imp.twice = imp.once

C25_Witness ==
    /\ imp.phase = "twice"
    /\ Len(Existing) >= 2
    /\ Range(Given) \ Range(Existing) # {}
    /\ Range(Given) \cap Range(Existing) # {}
    /\ Len(Merged) > Len(Existing)

\* C26: the update replaces the first import statement of a drizzle package
\* by one import statement and leaves what is before and after it as it is,
\* later imports of the package too; a content without such an import gets
\* the new import line and a newline before it.
C26_OnlyImportLineChanges ==
    imp.phase \in { "once", "twice" } =>
      LET matches == ImportMatches(imp.content, TRUE)
          line == newImportLine(Merged, imp.dialect)
      IN  IF matches = {}
          THEN imp.once = line \o << NL >> \o imp.content
          ELSE LET first == Least(matches)
                   last == ImportAt(imp.content, first, TRUE).end
               IN  /\ SubSeq(imp.once, 1, first - 1)
                        = SubSeq(imp.content, 1, first - 1)
                   /\ SubSeq(imp.once, first, first + Len(line) - 1) = line
                   /\ SubSeq(imp.once, first + Len(line), Len(imp.once))
                        = SubSeq(imp.content, last, Len(imp.content))

C26_Witness ==
    /\ imp.phase = "once"
    /\ Cardinality(ImportMatches(imp.content, TRUE)) = 2
    /\ Least(ImportMatches(imp.content, TRUE)) > 1
    /\ Cardinality(ImportMatches(imp.once, TRUE)) = 2
    /\ imp.once # imp.content

\* ------------------------------------------------------------ C27 .. C30
\* C27: for a valid model name that is its own singular, the context of its
\* plural has the singular name, the plural name, the case variants and the
\* table name of the context of the name itself; the context of a name is
\* always the same.
C27_PluralGivesSameContext ==
    /\ named.phase \in { "singular", "plural" } =>
         named.ofName = createModelContext(named.name)
    /\ (named.phase = "plural" /\ singularize(named.name) = named.name) =>
         \A f \in DOMAIN named.ofName \ { "name" } :
           named.ofPlural[f] = named.ofName[f]

\* the reference fields of the list that have a target whose table is not
\* written in the schema file
Missing ==
    SelectSeq(refs.fields,
              LAMBDA f : /\ HasTarget(f)
                         /\ ~includesQuoted(schemaText,
                               toSnakeCase(pluralize(f.referenceTo.value))))

\* C28: validateReferences does not throw and changes no file; it reads the
\* schema file and warns once for each reference field whose table name is
\* not in it, and it does nothing when there is no schema file.
C28_ReferencesOnlyWarn ==
    refs.phase = "validated" =>
      /\ ~refs.threw
      /\ Fs = before
      /\ \A i \in 1..Len(ops) : ops[i] = "readFileSync"
      /\ ~schemaExists => ops = << >> /\ refs.warnings = << >>
      /\ schemaExists =>
           /\ Len(refs.warnings) = Len(Missing)
           /\ \A k \in 1..Len(Missing) :
                refs.warnings[k].model = Missing[k].referenceTo.value

C28_Witness ==
    /\ refs.phase = "validated"
    /\ schemaExists
    /\ Len(refs.fields) = 2
    /\ Len(refs.checked) = 2
    /\ Len(refs.warnings) = 1
    /\ refs.warnings[1].model = refs.fields[2].referenceTo.value

\* ------------------------------------------------------------------- C29
\* the prompt is before every access to a file
PromptFirst ==
    \A i \in 1..Len(ops) : ops[i] = "confirm" => i = 1

\* the step in which destroy ends: the schema file it leaves is the file as
\* it is at that step, or that file without the block of the table
EndOfDestroy ==
    (pc # "done" /\ pc' = "done") =>
      /\ schemaText' \in { schemaText,
                           removeModelFromSchemaContent(
                               schemaText,
                               createModelContext(run'.name).tableName) }
      /\ (Len(ops') > 0 /\ ops'[Len(ops')] = "writeFileSync") =>
           /\ ops'[Len(ops') - 1] = "readFileSync"
           /\ schemaText'
                = removeModelFromSchemaContent(
                      schemaText, createModelContext(run'.name).tableName)

====
